---- MODULE Spec2Model ----
(***************************************************************************)
(* The agentic loop of src/agent.py (Agent.agentic_loop) as a state        *)
(* machine: one request/stream/dispatch cycle per attempt of a tenacity    *)
(* retry scope (stop_after_attempt(3)), recursion into a new invocation of *)
(* the loop after a cycle that executed a tool, and the exceptions that    *)
(* the "with attempt:" block catches.                                      *)
(*                                                                         *)
(* Strings that the code concatenates (text, arguments, results) are       *)
(* sequences of characters; None and "" are both the empty sequence (the   *)
(* code only tests their truthiness).  Identifiers that the code only      *)
(* compares (tool names, call ids, dict keys) are TLA+ strings, "" for     *)
(* None.                                                                   *)
(***************************************************************************)
EXTENDS Naturals, Sequences, FiniteSets

VARIABLES
    clientAvailable, \* clients.openai_client is not None
    messages,        \* Agent.messages, per loop
    stack,           \* the active invocations of agentic_loop, outermost first
    status,          \* "idle" | "running" | "returned" | "raised", per loop; a
                     \* subagent is "absent" until it is spawned and
                     \* "scheduled" until the event loop first runs its task
    events,          \* the events the outermost generator has yielded, per loop
    lastRequest,     \* the messages argument of the last create() call
    requests,        \* number of create() calls of the current invocation
    transportFailures, \* of those, how many raised (at create or in the stream)
    toolCalls,       \* number of tool instances invoked by the current invocation
    toolRaised,      \* some tool invocation of the current invocation raised
    exhausted,       \* some retry scope of the current invocation gave up
    zeroRound,       \* some cycle of the current invocation ended with no tool executed
    fragsLeft,       \* fragments the endpoint may still send (model bound)
    cpu,             \* the loop whose coroutine the asyncio event loop is running
    docker,          \* clients.docker_client and the python-dev container
    lastRun,         \* the last _run of a container tool: its input and result
    agent,           \* the Agent last constructed: tools and available_tools
    found            \* the class the last lookup of a tool name selected

\* the state of the agentic loops
loopvars == <<clientAvailable, messages, stack, status, events, lastRequest,
              requests, transportFailures, toolCalls, toolRaised, exhausted,
              zeroRound, fragsLeft, cpu>>

\* the state of the container tools and of Agent construction
toolvars == <<docker, lastRun, agent, found>>

vars == <<clientAvailable, messages, stack, status, events, lastRequest,
          requests, transportFailures, toolCalls, toolRaised, exhausted,
          zeroRound, fragsLeft, cpu, docker, lastRun, agent, found>>

\* no container tool has run, no Agent has been constructed
ToolsIdle ==
    /\ docker = [client |-> TRUE, status |-> "running", executed |-> <<>>,
                 files |-> {}]
    /\ lastRun = [tool |-> "", input |-> <<>>, result |-> <<>>]
    /\ agent = [constructed |-> FALSE, tools |-> <<>>, available_tools |-> <<>>]
    /\ found = [name |-> "", position |-> 0]

(***************************************************************************)
(* Bounds of the model.                                                    *)
(***************************************************************************)
MaxFrags == 3

MaxRequests == 5

MaxUserMessages == 1

\* fragments the endpoint may send in all when the launcher can spawn
MaxSubFrags == 2

(***************************************************************************)
(* Program constants.                                                      *)
(***************************************************************************)
MaxAttempts == 3

\* The loop the user interface iterates, and the loop of the subagent that
\* its spawn tool creates.
Loops == {"main", "sub"}

Launchers == {"main"}

Subagents == Loops \ Launchers

SpawnTool == "ToolSpawnSubagent"

InteractTool == "ToolInteractWithUser"

\* Agent.tools of the launcher: the registered tool classes, by __name__.
\* Foo and Bar stand for the tools that run their work in a thread.
Tools == <<"Foo", "Bar", SpawnTool, InteractTool>>

\* subagent_tools: the same classes without the spawn tool
SubagentTools == <<"Foo", "Bar", InteractTool>>

\* the subagent is given the launcher's tool list
ToolsOfLauncher(l) == Tools

\* simple_ui.py 60-78 for the launcher, tools.py 794-811 for a subagent
ToolsOf(l) == IF l \in Launchers THEN Tools ELSE SubagentTools

SystemPrompt == <<"s", "y", "s">>

\* subagent_prompt
SubagentPrompt == <<"s", "u", "b">>

SystemPromptOf(l) == IF l \in Launchers THEN SystemPrompt ELSE SubagentPrompt

(***************************************************************************)
(* Response fragments (chunk.choices[0].delta).                            *)
(***************************************************************************)
Delta(index, id, hasFn, name, arguments) ==
    [index |-> index, id |-> id, hasFn |-> hasFn, name |-> name,
     arguments |-> arguments]

Chunk(content, tool_calls) == [content |-> content, tool_calls |-> tool_calls]

\* The fragments the endpoint chooses from.
Fragments ==
    { Chunk(<<"a">>, <<>>),
      Chunk(<<"b">>, <<>>),
      Chunk(<<>>, <<Delta(0, "c0", TRUE, "Foo", <<"{", "k">>)>>),
      Chunk(<<>>, <<Delta(0, "", TRUE, "", <<"}">>)>>),
      Chunk(<<>>, <<Delta(1, "c1", TRUE, "Bar", <<"{">>)>>),
      Chunk(<<>>, <<Delta(1, "", TRUE, "", <<"}">>)>>),
      Chunk(<<>>, <<Delta(2, "", TRUE, "Nope", <<"{", "}">>)>>),
      Chunk(<<>>, <<Delta(1, "c9", FALSE, "", <<>>)>>),
      Chunk(<<"a">>, <<Delta(0, "", TRUE, "Bar", <<"}">>),
                       Delta(1, "", TRUE, "", <<"}">>)>>) }

(***************************************************************************)
(* Pure helpers.                                                           *)
(***************************************************************************)
\* f"index_{index}"
Key(index) ==
    CASE index = 0 -> "index_0"
      [] index = 1 -> "index_1"
      [] OTHER     -> "index_2"

\* f"call_{index}"
DefaultId(index) ==
    CASE index = 0 -> "call_0"
      [] index = 1 -> "call_1"
      [] OTHER     -> "call_2"

\* json.loads on the documents the fragments can spell: "{}" and "{k}" are
\* objects (k stands for one "name": value pair), anything else is a
\* JSONDecodeError.
JsonLoads(s) ==
    IF s = <<"{", "}">> THEN [ok |-> TRUE, value |-> 0]
    ELSE IF s = <<"{", "k", "}">> THEN [ok |-> TRUE, value |-> 1]
    ELSE [ok |-> FALSE, value |-> 0]

EventText(text) == [type |-> "Text", text |-> text, name |-> "", args |-> 0]

EventInputJson(partial_json) ==
    [type |-> "InputJson", text |-> partial_json, name |-> "", args |-> 0]

EventToolUse(tool) ==
    [type |-> "ToolUse", text |-> <<>>, name |-> tool.name, args |-> tool.args]

EventToolResult(tool, result) ==
    [type |-> "ToolResult", text |-> result, name |-> tool.name, args |-> tool.args]

UserMessage(content) ==
    [role |-> "user", content |-> content, tool_calls |-> <<>>, tool_call_id |-> ""]

SystemMessage(content) ==
    [role |-> "system", content |-> content, tool_calls |-> <<>>, tool_call_id |-> ""]

\* the reference is stored without the call's id
ToolCallNoId(entry) ==
    [id |-> "", type |-> "function",
     function |-> [name |-> entry.name, arguments |-> entry.arguments]]

\* a value of accumulated_tool_calls: the dict the assistant message references
ToolCall(entry) ==
    [id |-> entry.id, type |-> "function",
     function |-> [name |-> entry.name, arguments |-> entry.arguments]]

AssistantMessage(content, tool_call) ==
    [role |-> "assistant", content |-> content, tool_calls |-> <<tool_call>>,
     tool_call_id |-> ""]

ToolMessage(tool_call_id, content) ==
    [role |-> "tool", content |-> content, tool_calls |-> <<>>,
     tool_call_id |-> tool_call_id]

(***************************************************************************)
(* The stream accumulator (agent.py lines 107-145).                        *)
(* accumulated_tool_calls is a dict in insertion order: a sequence of      *)
(* entries, each with the key it was inserted under.                       *)
(***************************************************************************)
HasKey(calls, key) == \E i \in 1..Len(calls) : calls[i].key = key

\* the entry is created with the id the increment carries, empty if it has none
NewEntryBlank(key, d) ==
    [key |-> key, id |-> d.id, name |-> "", arguments |-> <<>>]

\* the entry created for a key not seen before
NewEntry(key, d) ==
    [key |-> key,
     id |-> IF d.id # "" THEN d.id ELSE DefaultId(d.index),
     name |-> "",
     arguments |-> <<>>]

\* the increment overwrites what was accumulated ("=" for "+=")
AppendArgumentsOverwrites(acc, inc) == inc

\* accumulated_tool_calls[key]["function"]["arguments"] += arguments
AppendArguments(acc, inc) == acc \o inc

\* an empty value erases the stored one
OverwriteAlways(stored, carried) == carried

\* if tool_call_id: ...["id"] = tool_call_id; if function.name: ...["name"] = name
Overwrite(stored, carried) == IF carried # "" THEN carried ELSE stored

\* the event carries the arguments as they were before the increment
PartialJsonBefore(before, after) == <<EventInputJson(before.arguments)>>

\* yield EventInputJson(partial_json=...["function"]["arguments"]), after the update
PartialJson(before, after) == <<EventInputJson(after.arguments)>>

\* one tool_call_delta: the map after it, and the events it yields
ApplyDelta(calls, d) ==
    LET key == Key(d.index)
        c1  == IF HasKey(calls, key) THEN calls ELSE Append(calls, NewEntry(key, d))
        pos == CHOOSE i \in 1..Len(c1) : c1[i].key = key
        e1  == c1[pos]
        e2  == [e1 EXCEPT !.id = Overwrite(@, d.id)]
        e3  == IF d.hasFn
               THEN [e2 EXCEPT !.name = Overwrite(@, d.name),
                               !.arguments = IF d.arguments # <<>>
                                             THEN AppendArguments(@, d.arguments)
                                             ELSE @]
               ELSE e2
    IN  [calls  |-> [c1 EXCEPT ![pos] = e3],
         events |-> IF d.hasFn THEN PartialJson(e2, e3) ELSE <<>>]

RECURSIVE ApplyDeltas(_, _)
\* for tool_call_delta in delta.tool_calls
ApplyDeltas(calls, deltas) ==
    IF deltas = <<>> THEN [calls |-> calls, events |-> <<>>]
    ELSE LET r1 == ApplyDelta(calls, Head(deltas))
             r2 == ApplyDeltas(r1.calls, Tail(deltas))
         IN  [calls |-> r2.calls, events |-> r1.events \o r2.events]

\* the accumulated text is yielded instead of the increment
YieldTextAccumulated(accumulated_content, content) ==
    <<EventText(accumulated_content)>>

\* the event yielded for a text increment
YieldText(accumulated_content, content) == <<EventText(content)>>

\* if delta.content: accumulate it and yield it
ApplyText(accumulated_content, content) ==
    IF content # <<>>
    THEN [content |-> accumulated_content \o content,
          events  |-> YieldText(accumulated_content \o content, content)]
    ELSE [content |-> accumulated_content, events |-> <<>>]

\* the events of the tool-call deltas of a chunk come before its text event
ChunkEventsDeltasFirst(text_events, delta_events) == delta_events \o text_events

\* "if delta.content:" (114) stands before "if delta.tool_calls:" (119)
ChunkEvents(text_events, delta_events) == text_events \o delta_events

\* one chunk of the stream: text first, then its tool-call deltas
ApplyChunk(f, c) ==
    LET t == ApplyText(f.content, c.content)
        k == ApplyDeltas(f.calls, c.tool_calls)
    IN  [content |-> t.content, calls |-> k.calls,
         events |-> ChunkEvents(t.events, k.events)]

(***************************************************************************)
(* Invocations of agentic_loop.  A frame holds the locals of one           *)
(* invocation and the attempt number of its retry scope; msgStart,         *)
(* evStart, chunks, dispatched, parseFailed and recursed record what the   *)
(* current attempt has done so far.                                        *)
(***************************************************************************)
NewFrame(l) ==
    [attempt |-> 1, pc |-> "attempt",
     content |-> <<>>, calls |-> <<>>, i |-> 1, executed |-> FALSE,
     tool |-> [name |-> "", args |-> 0],
     msgStart |-> Len(messages[l]), evStart |-> Len(events[l]),
     chunks |-> <<>>, dispatched |-> <<>>, parseFailed |-> FALSE, recursed |-> 0]

Top(l) == stack[l][Len(stack[l])]

SetTop(l, f) == [stack EXCEPT ![l] = [@ EXCEPT ![Len(@)] = f]]

Running(l) == status[l] = "running" /\ stack[l] # <<>>

\* the loop is running and the event loop is executing its coroutine
Runs(l) == Running(l) /\ cpu = l

\* each generator is iterated by its own consumer: the interface iterates
\* the launcher's (simple_ui.py), run_subagent the subagent's (tools.py 828)
EventSinkLauncher(l) == "main"

EventSink(l) == l

\* the scope stops one attempt late
ShouldStopLate(attempt) == attempt > MaxAttempts

\* stop_after_attempt(3)
ShouldStop(attempt) == attempt >= MaxAttempts

\* the messages the failed attempt appended are taken back
HistoryRolledBack(history, f) == SubSeq(history, 1, f.msgStart)

\* the retry scope records the failure and leaves self.messages as it is
HistoryAfterFailure(history, f) == history

\* the exception is not retried: it leaves the invocation at once
AttemptFailsAtOnce(f) == [f EXCEPT !.pc = "raised"]

\* An exception reaches "with attempt:" of frame f: tenacity records it and
\* either sleeps for the next attempt or raises RetryError out of the frame.
AttemptFails(f) ==
    IF ShouldStop(f.attempt)
    THEN [f EXCEPT !.pc = "raised"]
    ELSE [f EXCEPT !.pc = "wait", !.attempt = @ + 1]

\* the request carries the system prompt and the latest message only
BuildRequestLatest(system_prompt, msgs) ==
    <<SystemMessage(system_prompt)>>
        \o (IF msgs = <<>> THEN <<>> ELSE <<msgs[Len(msgs)]>>)

\* openai_messages: the system prompt, if any, then the whole history
BuildRequest(system_prompt, msgs) ==
    IF system_prompt # <<>> THEN <<SystemMessage(system_prompt)>> \o msgs ELSE msgs

\* for tool_class in self.tools: if tool_class.__name__ == tool_name
Matches(l, tool_name) == \E t \in 1..Len(ToolsOf(l)) : ToolsOf(l)[t] = tool_name

\* what awaiting the tool instance returns
ToolResultText(tool) == <<"o", "k">>

\* "return await asyncio.to_thread(self._run)": while the thread works the
\* event loop can run other tasks.  The spawn tool and the user-interaction
\* tool have no such suspension point.
Suspends(tool) == tool.name \in {"Foo", "Bar"}

\* The prompter given to create_tool_interact_with_user is a coroutine
\* function for the launcher (SimpleUI.prompt_user is "async def") and a
\* plain function that returns a str for a subagent (subagent_prompter).
PrompterIsCoroutine(l) == l \in Launchers

\* "res = await prompter(self.query)": awaiting a str raises TypeError
CanReturn(l, tool) ==
    /\ tool.name # SpawnTool
    /\ tool.name = InteractTool => PrompterIsCoroutine(l)

\* self.task, read from the parsed arguments
TaskOf(args) == IF args = 1 THEN <<"k">> ELSE <<>>

\* f"Please complete this task: {self.task}"
TaskMessage(task) == <<"Please complete this task: ">> \o task

\* the acknowledgement of line 887 (tasks here are shorter than 100 characters)
Ack(task) == <<"Subagent started for task: ">> \o task \o <<". It will run in the background">>

\* f"Error spawning subagent: {str(e)}"
SpawnError == <<"Error spawning subagent: ">>

ClientError == <<"Error: OpenAI API key not configured">>

ParseError(tool_args_str) == <<"Error: Failed to parse tool arguments as JSON">> \o tool_args_str

TypeOK ==
    /\ clientAvailable \in BOOLEAN
    /\ \A l \in Loops :
        /\ status[l] \in {"idle", "running", "returned", "raised",
                          "absent", "scheduled"}
        /\ cpu \in Loops
        /\ requests[l] \in 0..MaxRequests
        /\ transportFailures[l] \in 0..requests[l]
        /\ fragsLeft \in 0..MaxFrags
        /\ \A d \in 1..Len(stack[l]) :
            /\ stack[l][d].attempt \in 1..MaxAttempts
            /\ stack[l][d].pc \in {"attempt", "stream", "dispatch", "invoking",
                                   "recursing", "returning", "wait", "raised"}

Init ==
    /\ clientAvailable \in BOOLEAN
    /\ messages = [l \in Loops |-> <<>>]
    /\ stack = [l \in Loops |-> <<>>]
    /\ status = [l \in Loops |-> IF l \in Launchers THEN "idle" ELSE "absent"]
    /\ events = [l \in Loops |-> <<>>]
    /\ lastRequest = [l \in Loops |-> <<>>]
    /\ requests = [l \in Loops |-> 0]
    /\ transportFailures = [l \in Loops |-> 0]
    /\ toolCalls = [l \in Loops |-> 0]
    /\ toolRaised = [l \in Loops |-> FALSE]
    /\ exhausted = [l \in Loops |-> FALSE]
    /\ zeroRound = [l \in Loops |-> FALSE]
    /\ fragsLeft = MaxFrags
    /\ cpu = "main"
    /\ ToolsIdle

\* the new messages are put in front of the history
PrependMessages(history, new) == new \o history

\* self.messages.append(...), once per new message
AppendMessages(history, new) == history \o new

\* Agent.add_user_message
AddUserMessage(l) ==
    /\ l \in Launchers
    /\ status[l] # "running"
    /\ Len(SelectSeq(messages[l], LAMBDA m : m.role = "user")) < MaxUserMessages
    /\ messages' = [messages EXCEPT
                      ![l] = AppendMessages(@, <<UserMessage(<<"u">>)>>)]
    /\ UNCHANGED <<toolvars, cpu, clientAvailable, stack, status, events, lastRequest, requests,
                   transportFailures, toolCalls, toolRaised, exhausted, zeroRound,
                   fragsLeft>>

\* the loop enters its retry scope whether or not there is a client
ClientMissingIgnored(available) == FALSE

\* Line 84: "if openai_client is None"
ClientMissing(available) == ~available

\* The caller starts iterating agentic_loop(): without a client the loop
\* yields one error text and returns, otherwise it enters its retry scope.
StartLoop(l) ==
    /\ l \in Launchers
    /\ status[l] # "running"
    /\ requests' = [requests EXCEPT ![l] = 0]
    /\ transportFailures' = [transportFailures EXCEPT ![l] = 0]
    /\ toolCalls' = [toolCalls EXCEPT ![l] = 0]
    /\ toolRaised' = [toolRaised EXCEPT ![l] = FALSE]
    /\ exhausted' = [exhausted EXCEPT ![l] = FALSE]
    /\ zeroRound' = [zeroRound EXCEPT ![l] = FALSE]
    /\ IF ~ClientMissing(clientAvailable)
       THEN /\ events' = [events EXCEPT ![EventSink(l)] = <<>>]
            /\ stack' = [stack EXCEPT ![l] =
                           <<[NewFrame(l) EXCEPT !.evStart = 0]>>]
            /\ status' = [status EXCEPT ![l] = "running"]
       ELSE /\ events' = [events EXCEPT ![EventSink(l)] = <<EventText(ClientError)>>]
            /\ stack' = [stack EXCEPT ![l] = <<>>]
            /\ status' = [status EXCEPT ![l] = "returned"]
    /\ UNCHANGED <<toolvars, cpu, clientAvailable, messages, lastRequest, fragsLeft>>

\* the attempt goes on with what the frame accumulated before
KeptAccumulators(f) == f

\* accumulated_content = ""; accumulated_tool_calls = {}
FreshAccumulators(f) == [f EXCEPT !.content = <<>>, !.calls = <<>>]

\* Lines 92-108, create() returns a stream: the request is built from the
\* history as it is now, and the attempt starts from empty accumulators.
CreateStream(l) ==
    /\ Runs(l) /\ Top(l).pc = "attempt"
    /\ requests[l] < MaxRequests
    /\ lastRequest' = [lastRequest EXCEPT ![l] = BuildRequest(SystemPromptOf(l), messages[l])]
    /\ requests' = [requests EXCEPT ![l] = @ + 1]
    /\ stack' = SetTop(l, [FreshAccumulators(Top(l)) EXCEPT
                   !.pc = "stream", !.i = 1, !.executed = FALSE,
                   !.msgStart = Len(messages[l]), !.evStart = Len(events[l]),
                   !.chunks = <<>>, !.dispatched = <<>>, !.parseFailed = FALSE,
                   !.recursed = 0])
    /\ UNCHANGED <<toolvars, cpu, clientAvailable, messages, status, events, transportFailures,
                   toolCalls, toolRaised, exhausted, zeroRound, fragsLeft>>

\* Lines 92-105, create() raises: the attempt has failed.
CreateRaises(l) ==
    /\ Runs(l) /\ Top(l).pc = "attempt"
    /\ requests[l] < MaxRequests
    /\ lastRequest' = [lastRequest EXCEPT ![l] = BuildRequest(SystemPromptOf(l), messages[l])]
    /\ requests' = [requests EXCEPT ![l] = @ + 1]
    /\ transportFailures' = [transportFailures EXCEPT ![l] = @ + 1]
    /\ stack' = SetTop(l, AttemptFails(Top(l)))
    /\ exhausted' = [exhausted EXCEPT ![l] = @ \/ ShouldStop(Top(l).attempt)]
    /\ UNCHANGED <<toolvars, cpu, clientAvailable, messages, status, events, toolCalls,
                   toolRaised, zeroRound, fragsLeft>>

\* Lines 110-145, the stream delivers chunk c.
NextChunk(l, c) ==
    /\ Runs(l) /\ Top(l).pc = "stream"
    /\ fragsLeft > 0
    /\ LET r == ApplyChunk(Top(l), c)
       IN  /\ stack' = SetTop(l, [Top(l) EXCEPT !.content = r.content,
                                                 !.calls = r.calls,
                                                 !.chunks = Append(@, c)])
           /\ events' = [events EXCEPT ![EventSink(l)] = @ \o r.events]
    /\ fragsLeft' = fragsLeft - 1
    /\ UNCHANGED <<toolvars, cpu, clientAvailable, messages, status, lastRequest, requests,
                   transportFailures, toolCalls, toolRaised, exhausted, zeroRound>>

\* Line 110, iterating the stream raises: the attempt has failed.
StreamRaises(l) ==
    /\ Runs(l) /\ Top(l).pc = "stream"
    /\ transportFailures' = [transportFailures EXCEPT ![l] = @ + 1]
    /\ stack' = SetTop(l, AttemptFails(Top(l)))
    /\ exhausted' = [exhausted EXCEPT ![l] = @ \/ ShouldStop(Top(l).attempt)]
    /\ UNCHANGED <<toolvars, cpu, clientAvailable, messages, status, events, lastRequest,
                   requests, toolCalls, toolRaised, zeroRound, fragsLeft>>

\* Lines 110, 147-150: the stream is exhausted, dispatch starts.
StreamEnds(l) ==
    /\ Runs(l) /\ Top(l).pc = "stream"
    /\ stack' = SetTop(l, [Top(l) EXCEPT !.pc = "dispatch", !.i = 1,
                                          !.executed = FALSE])
    /\ UNCHANGED <<toolvars, cpu, clientAvailable, messages, status, events, lastRequest,
                   requests, transportFailures, toolCalls, toolRaised, exhausted,
                   zeroRound, fragsLeft>>

\* the for loop of line 150 is at an entry
AtEntry(l) ==
    /\ Runs(l) /\ Top(l).pc = "dispatch"
    /\ Top(l).i <= Len(Top(l).calls)

\* line 193 is reached while the for loop is still at an entry or a tool is
\* still being awaited
LoopOverEarly(l) ==
    /\ Runs(l) /\ Top(l).pc \in {"dispatch", "invoking"}

\* the for loop of line 150 is over (or was never entered, or was left by break)
LoopOver(l) ==
    /\ Runs(l) /\ Top(l).pc = "dispatch"
    /\ Top(l).i > Len(Top(l).calls)

\* the entries are visited by increasing index, not in insertion order
EntryInIndexOrder(l) ==
    LET calls == Top(l).calls
        ns == {n \in 0..2 : HasKey(calls, Key(n))}
        n  == CHOOSE n \in ns : Cardinality({m \in ns : m < n}) = Top(l).i - 1
    IN  calls[CHOOSE p \in 1..Len(calls) : calls[p].key = Key(n)]

\* line 150: the entry the for loop is at, in the insertion order of the dict
Entry(l) == Top(l).calls[Top(l).i]

\* the for loop goes on to the next entry ("continue" for clear and break)
AfterParseFailureContinues(f) == [f EXCEPT !.i = @ + 1, !.parseFailed = TRUE]

\* lines 160-162: accumulated_tool_calls.clear(); break
AfterParseFailure(f) == [f EXCEPT !.calls = <<>>, !.i = 1, !.parseFailed = TRUE]

\* Lines 155-162: the arguments do not parse; an error text is yielded, the
\* map is cleared and the for loop is left.
ParseFails(l) ==
    /\ AtEntry(l)
    /\ ~JsonLoads(Entry(l).arguments).ok
    /\ events' = [events EXCEPT ![EventSink(l)] =
                    Append(@, EventText(ParseError(Entry(l).arguments)))]
    /\ stack' = SetTop(l, AfterParseFailure(Top(l)))
    /\ UNCHANGED <<toolvars, cpu, clientAvailable, messages, status, lastRequest, requests,
                   transportFailures, toolCalls, toolRaised, exhausted, zeroRound,
                   fragsLeft>>

\* the for loop of line 150 is left at an entry that matches no tool
AfterUnmatchedStops(f) == [f EXCEPT !.i = Len(f.calls) + 1]

\* lines 165-166 fall through for every tool class: the for loop of line 150
\* goes on to its next entry
AfterUnmatched(f) == [f EXCEPT !.i = @ + 1]

\* Lines 165-166: no tool class has the entry's name; on to the next entry.
SkipUnmatched(l) ==
    /\ AtEntry(l)
    /\ JsonLoads(Entry(l).arguments).ok
    /\ ~Matches(l, Entry(l).name)
    /\ stack' = SetTop(l, AfterUnmatched(Top(l)))
    /\ UNCHANGED <<toolvars, cpu, clientAvailable, messages, status, events, lastRequest,
                   requests, transportFailures, toolCalls, toolRaised, exhausted,
                   zeroRound, fragsLeft>>

\* Line 168: tool_class(**tool_args) raises (validation): the attempt has failed.
ConstructRaises(l) ==
    /\ AtEntry(l)
    /\ JsonLoads(Entry(l).arguments).ok
    /\ Matches(l, Entry(l).name)
    /\ stack' = SetTop(l, AttemptFails(Top(l)))
    /\ messages' = [messages EXCEPT ![l] = HistoryAfterFailure(@, Top(l))]
    /\ exhausted' = [exhausted EXCEPT ![l] = @ \/ ShouldStop(Top(l).attempt)]
    /\ UNCHANGED <<toolvars, cpu, clientAvailable, status, events, lastRequest,
                   requests, transportFailures, toolCalls, toolRaised, zeroRound,
                   fragsLeft>>

\* Lines 168-172: the instance is built, EventToolUse is yielded and the
\* tool is awaited.
InvokeTool(l) ==
    /\ AtEntry(l)
    /\ JsonLoads(Entry(l).arguments).ok
    /\ Matches(l, Entry(l).name)
    /\ Entry(l).name = SpawnTool => \E s \in Subagents : status[s] = "absent"
    /\ LET tool == [name |-> Entry(l).name,
                    args |-> JsonLoads(Entry(l).arguments).value]
       IN  /\ events' = [events EXCEPT ![EventSink(l)] = Append(@, EventToolUse(tool))]
           /\ stack' = SetTop(l, [Top(l) EXCEPT !.pc = "invoking", !.tool = tool])
    /\ toolCalls' = [toolCalls EXCEPT ![l] = @ + 1]
    /\ UNCHANGED <<toolvars, cpu, clientAvailable, messages, status, lastRequest, requests,
                   transportFailures, toolRaised, exhausted, zeroRound, fragsLeft>>

\* only the tool-result message is appended
CallMessagesResultOnly(f, result) ==
    <<ToolMessage(f.calls[f.i].id, result)>>

\* the two messages appended for a dispatched call
CallMessages(f, result) ==
    <<AssistantMessage(f.content, ToolCall(f.calls[f.i])),
      ToolMessage(f.calls[f.i].id, result)>>

\* Lines 172-190: the tool returns; EventToolResult is yielded, the two
\* messages are appended, and the for loop goes on to the next entry.
ToolReturns(l) ==
    /\ Runs(l) /\ Top(l).pc = "invoking"
    /\ CanReturn(l, Top(l).tool)
    /\ LET result == ToolResultText(Top(l).tool)
       IN  /\ events' = [events EXCEPT ![EventSink(l)] =
                           Append(@, EventToolResult(Top(l).tool, result))]
           /\ messages' = [messages EXCEPT
                             ![l] = AppendMessages(@, CallMessages(Top(l), result))]
    /\ stack' = SetTop(l, [Top(l) EXCEPT !.pc = "dispatch", !.i = @ + 1,
                                          !.executed = TRUE,
                                          !.dispatched = Append(@, Entry(l))])
    /\ UNCHANGED <<toolvars, cpu, clientAvailable, status, lastRequest, requests,
                   transportFailures, toolCalls, toolRaised, exhausted, zeroRound,
                   fragsLeft>>

\* the spawn tool lets its exceptions through like any other tool
CanRaiseAny(tool) == TRUE

\* ToolSpawnSubagent.__call__ is one try block whose "except Exception"
\* returns the error as the result (tools.py 748, 889-890)
CanRaise(tool) == tool.name # SpawnTool

\* Line 172: the tool raises: the attempt has failed.
ToolRaises(l) ==
    /\ Runs(l) /\ Top(l).pc = "invoking"
    /\ CanRaise(Top(l).tool)
    /\ toolRaised' = [toolRaised EXCEPT ![l] = TRUE]
    /\ stack' = SetTop(l, AttemptFails(Top(l)))
    /\ messages' = [messages EXCEPT ![l] = HistoryAfterFailure(@, Top(l))]
    /\ exhausted' = [exhausted EXCEPT ![l] = @ \/ ShouldStop(Top(l).attempt)]
    /\ UNCHANGED <<toolvars, cpu, clientAvailable, status, events, lastRequest,
                   requests, transportFailures, toolCalls, zeroRound, fragsLeft>>

\* the loop continues whenever the for loop is over
WillRecurseAlways(f) == TRUE

\* line 193: if tool_calls_executed
WillRecurse(f) == f.executed

\* Lines 193-195: a tool was executed; the loop invokes itself and forwards
\* the events of the inner invocation.
Recurse(l) ==
    /\ LoopOver(l)
    /\ WillRecurse(Top(l))
    /\ IF ~ClientMissing(clientAvailable)
       THEN /\ stack' = [stack EXCEPT ![l] =
                          Append([@ EXCEPT ![Len(@)] =
                                     [Top(l) EXCEPT !.pc = "recursing",
                                                    !.recursed = @ + 1]],
                                 NewFrame(l))]
            /\ UNCHANGED events
       ELSE /\ stack' = SetTop(l, [Top(l) EXCEPT !.pc = "returning",
                                                  !.recursed = @ + 1])
            /\ events' = [events EXCEPT ![EventSink(l)] = Append(@, EventText(ClientError))]
    /\ zeroRound' = [zeroRound EXCEPT ![l] = @ \/ Top(l).dispatched = <<>>]
    /\ UNCHANGED <<toolvars, cpu, clientAvailable, messages, status, lastRequest, requests,
                   transportFailures, toolCalls, toolRaised, exhausted, fragsLeft>>

\* the text of the turn is recorded as an assistant message
HistoryWithFinalText(history, f) ==
    Append(history, [role |-> "assistant", content |-> f.content,
                     tool_calls |-> <<>>, tool_call_id |-> ""])

\* lines 147-195 append nothing for a round that executed no tool
HistoryAfterRound(history, f) == history

\* Lines 149, 193: no tool was executed; the body of "with attempt:" ends.
Finish(l) ==
    /\ LoopOver(l)
    /\ ~WillRecurse(Top(l))
    /\ stack' = SetTop(l, [Top(l) EXCEPT !.pc = "returning"])
    /\ messages' = [messages EXCEPT ![l] = HistoryAfterRound(@, Top(l))]
    /\ zeroRound' = [zeroRound EXCEPT ![l] = @ \/ Top(l).dispatched = <<>>]
    /\ UNCHANGED <<toolvars, cpu, clientAvailable, status, events, lastRequest,
                   requests, transportFailures, toolCalls, toolRaised, exhausted,
                   fragsLeft>>

\* the launching invocation keeps waiting at line 194 after the inner one returned
AfterChildStays(f) == f

\* Lines 194-195 once the inner generator has finished: the "async for" ends,
\* and with it the body of "with attempt:" of the launching invocation.
AfterChild(f) == [f EXCEPT !.pc = "returning"]

\* The attempt succeeded, so the retry scope ends and the invocation
\* returns: to the caller, or to line 194 of the invocation that started it,
\* whose body then ends too.
Return(l) ==
    /\ Runs(l) /\ Top(l).pc = "returning"
    /\ LET rest == SubSeq(stack[l], 1, Len(stack[l]) - 1)
       IN  IF rest = <<>>
           THEN /\ stack' = [stack EXCEPT ![l] = <<>>]
                /\ status' = [status EXCEPT ![l] = "returned"]
           ELSE /\ stack' = [stack EXCEPT ![l] =
                               [rest EXCEPT ![Len(rest)] = AfterChild(@)]]
                /\ UNCHANGED status
    /\ UNCHANGED <<toolvars, cpu, clientAvailable, messages, events, lastRequest, requests,
                   transportFailures, toolCalls, toolRaised, exhausted, zeroRound,
                   fragsLeft>>

\* wait_fixed(3) is over: the body of "with attempt:" runs again.
Retry(l) ==
    /\ Runs(l) /\ Top(l).pc = "wait"
    /\ stack' = SetTop(l, [Top(l) EXCEPT !.pc = "attempt"])
    /\ UNCHANGED <<toolvars, cpu, clientAvailable, messages, status, events, lastRequest,
                   requests, transportFailures, toolCalls, toolRaised, exhausted,
                   zeroRound, fragsLeft>>

\* RetryError leaves the invocation: it reaches the caller, or line 194 of
\* the invocation that started this one, inside that one's "with attempt:".
Propagate(l) ==
    /\ Runs(l) /\ Top(l).pc = "raised"
    /\ LET rest == SubSeq(stack[l], 1, Len(stack[l]) - 1)
       IN  IF rest = <<>>
           THEN /\ stack' = [stack EXCEPT ![l] = <<>>]
                /\ status' = [status EXCEPT ![l] = "raised"]
                /\ UNCHANGED <<exhausted, messages>>
           ELSE /\ stack' = [stack EXCEPT ![l] =
                               [rest EXCEPT ![Len(rest)] = AttemptFails(@)]]
                /\ messages' = [messages EXCEPT
                                  ![l] = HistoryAfterFailure(@, rest[Len(rest)])]
                /\ exhausted' = [exhausted EXCEPT ![l] =
                                   @ \/ ShouldStop(rest[Len(rest)].attempt)]
                /\ UNCHANGED status
    /\ UNCHANGED <<toolvars, cpu, clientAvailable, events, lastRequest, requests,
                   transportFailures, toolCalls, toolRaised, zeroRound, fragsLeft>>

Next ==
    \E l \in Loops :
        \/ AddUserMessage(l)
        \/ StartLoop(l)
        \/ CreateStream(l)
        \/ CreateRaises(l)
        \/ \E c \in Fragments : NextChunk(l, c)
        \/ StreamRaises(l)
        \/ StreamEnds(l)
        \/ ParseFails(l)
        \/ SkipUnmatched(l)
        \/ ConstructRaises(l)
        \/ InvokeTool(l)
        \/ ToolReturns(l)
        \/ ToolRaises(l)
        \/ Recurse(l)
        \/ Finish(l)
        \/ Return(l)
        \/ Retry(l)
        \/ Propagate(l)

Spec == Init /\ [][Next]_vars

\* The steps of the loop itself and of the endpoint and tools it waits for
\* (not the caller's decisions to add a message or to iterate the loop).
LoopProgress ==
    \E l \in Loops :
        \/ CreateStream(l) \/ CreateRaises(l)
        \/ \E c \in Fragments : NextChunk(l, c)
        \/ StreamRaises(l) \/ StreamEnds(l)
        \/ ParseFails(l) \/ SkipUnmatched(l) \/ ConstructRaises(l)
        \/ InvokeTool(l) \/ ToolReturns(l) \/ ToolRaises(l)
        \/ Recurse(l) \/ Finish(l) \/ Return(l) \/ Retry(l) \/ Propagate(l)

\* One loop is one sequential control flow: it takes its next step whenever
\* it has one, and every stream and every tool invocation it waits for ends.
SpecLive == Init /\ [][Next]_vars /\ WF_vars(LoopProgress)

(***************************************************************************)
(* Subagents (ToolSpawnSubagent.__call__, src/tools.py 746-890).  The      *)
(* launcher and the subagent are coroutines of one asyncio event loop: one *)
(* of them executes at a time, and the event loop changes over only where  *)
(* the executing one really suspends (a tool's thread, the sleep between   *)
(* two attempts) or where the subagent's task ends.  Requests and streams  *)
(* use the synchronous client and never suspend.                           *)
(***************************************************************************)
\* the subagent receives the launcher's history and the task after it
SubagentHistoryShared(task, launcher_messages) ==
    Append(launcher_messages, UserMessage(TaskMessage(task)))

\* messages=[] (line 818) and add_user_message (line 822)
SubagentHistory(task, launcher_messages) == <<UserMessage(TaskMessage(task))>>

\* the spawn call awaits the subagent's task, which runs at once
AfterSpawnAwaits(l, s) == s

\* asyncio.create_task (line 884) only schedules the task: the launcher
\* goes on executing
AfterSpawn(l, s) == l

\* Lines 746-887 and agent.py 172-190: the spawn tool builds the subagent,
\* schedules its task and returns the acknowledgement, which the launcher
\* yields and records like any tool result.
SpawnSubagent(l) ==
    /\ Runs(l) /\ Top(l).pc = "invoking"
    /\ Top(l).tool.name = SpawnTool
    /\ \E s \in Subagents :
        /\ status[s] = "absent"
        /\ LET task == TaskOf(Top(l).tool.args)
               result == Ack(task)
           IN  /\ messages' = [messages EXCEPT
                                 ![l] = AppendMessages(@, CallMessages(Top(l), result)),
                                 ![s] = SubagentHistory(task, messages[l])]
               /\ events' = [events EXCEPT ![EventSink(l)] =
                               Append(@, EventToolResult(Top(l).tool, result))]
        /\ status' = [status EXCEPT ![s] = "scheduled"]
        /\ cpu' = AfterSpawn(l, s)
    /\ stack' = SetTop(l, [Top(l) EXCEPT !.pc = "dispatch", !.i = @ + 1,
                                          !.executed = TRUE,
                                          !.dispatched = Append(@, Entry(l))])
    /\ UNCHANGED <<toolvars, clientAvailable, lastRequest, requests, transportFailures,
                   toolCalls, toolRaised, exhausted, zeroRound, fragsLeft>>

\* Lines 748, 889-890: something inside the try raises; the tool returns
\* the error string and no subagent exists.
SpawnFails(l) ==
    /\ Runs(l) /\ Top(l).pc = "invoking"
    /\ Top(l).tool.name = SpawnTool
    /\ messages' = [messages EXCEPT
                      ![l] = AppendMessages(@, CallMessages(Top(l), SpawnError))]
    /\ events' = [events EXCEPT ![EventSink(l)] =
                    Append(@, EventToolResult(Top(l).tool, SpawnError))]
    /\ stack' = SetTop(l, [Top(l) EXCEPT !.pc = "dispatch", !.i = @ + 1,
                                          !.executed = TRUE,
                                          !.dispatched = Append(@, Entry(l))])
    /\ UNCHANGED <<toolvars, cpu, clientAvailable, status, lastRequest, requests,
                   transportFailures, toolCalls, toolRaised, exhausted, zeroRound,
                   fragsLeft>>

\* the loop is at an await that really suspends its coroutine
AtAwait(l) ==
    /\ Running(l)
    /\ \/ Top(l).pc = "wait"
       \/ Top(l).pc = "invoking" /\ Suspends(Top(l).tool)

\* the executing coroutine has given up the event loop
Suspended(l) ==
    \/ AtAwait(l)
    \/ l \in Subagents /\ status[l] \in {"returned", "raised"}

\* the event loop can run this coroutine: its task was never started, or
\* what it awaits may be done
Resumable(m) == status[m] = "scheduled" \/ AtAwait(m)

\* The event loop turns from one coroutine to another.
Switch(l, m) ==
    /\ cpu = l /\ m # l
    /\ Suspended(l) /\ Resumable(m)
    /\ cpu' = m
    /\ UNCHANGED <<toolvars, clientAvailable, messages, stack, status, events, lastRequest,
                   requests, transportFailures, toolCalls, toolRaised, exhausted,
                   zeroRound, fragsLeft>>

\* Lines 825-828: the event loop runs the task for the first time;
\* run_subagent starts to iterate subagent.agentic_loop().
StartSubagent(s) ==
    /\ s \in Subagents /\ cpu = s
    /\ status[s] = "scheduled"
    /\ status' = [status EXCEPT ![s] = "running"]
    /\ stack' = [stack EXCEPT ![s] = <<[NewFrame(s) EXCEPT !.evStart = 0]>>]
    /\ events' = [events EXCEPT ![EventSink(s)] = <<>>]
    /\ UNCHANGED <<toolvars, cpu, clientAvailable, messages, lastRequest, requests,
                   transportFailures, toolCalls, toolRaised, exhausted, zeroRound,
                   fragsLeft>>

\* The fragments the endpoint chooses from when the launcher can spawn.
SubFragments ==
    { Chunk(<<"a">>, <<>>),
      Chunk(<<>>, <<Delta(0, "c0", TRUE, SpawnTool, <<"{", "k", "}">>)>>),
      Chunk(<<>>, <<Delta(0, "c1", TRUE, InteractTool, <<"{", "k", "}">>)>>),
      Chunk(<<"b">>, <<Delta(1, "c2", TRUE, "Foo", <<"{", "}">>)>>) }

NextSub ==
    \/ \E l \in Loops :
        \/ AddUserMessage(l)
        \/ StartLoop(l)
        \/ CreateStream(l)
        \/ CreateRaises(l)
        \/ \E c \in SubFragments : NextChunk(l, c)
        \/ StreamRaises(l)
        \/ StreamEnds(l)
        \/ ParseFails(l)
        \/ SkipUnmatched(l)
        \/ ConstructRaises(l)
        \/ InvokeTool(l)
        \/ ToolReturns(l)
        \/ ToolRaises(l)
        \/ SpawnSubagent(l)
        \/ SpawnFails(l)
        \/ StartSubagent(l)
        \/ Recurse(l)
        \/ Finish(l)
        \/ Return(l)
        \/ Retry(l)
        \/ Propagate(l)
    \/ \E l, m \in Loops : Switch(l, m)

InitSub ==
    /\ clientAvailable \in BOOLEAN
    /\ messages = [l \in Loops |-> <<>>]
    /\ stack = [l \in Loops |-> <<>>]
    /\ status = [l \in Loops |-> IF l \in Launchers THEN "idle" ELSE "absent"]
    /\ events = [l \in Loops |-> <<>>]
    /\ lastRequest = [l \in Loops |-> <<>>]
    /\ requests = [l \in Loops |-> 0]
    /\ transportFailures = [l \in Loops |-> 0]
    /\ toolCalls = [l \in Loops |-> 0]
    /\ toolRaised = [l \in Loops |-> FALSE]
    /\ exhausted = [l \in Loops |-> FALSE]
    /\ zeroRound = [l \in Loops |-> FALSE]
    /\ fragsLeft = MaxSubFrags
    /\ cpu = "main"
    /\ ToolsIdle

\* The launcher with its spawn tool, and the subagent it spawns.
SpecSub == InitSub /\ [][NextSub]_vars

(***************************************************************************)
(* run_subagent (tools.py 825-881): what the task prints for the events of *)
(* the subagent's loop.  Text is buffered and printed when a tool event    *)
(* arrives or the loop ends (the texts here hold no newline and stay       *)
(* under 100 characters); partial-arguments events print nothing.          *)
(***************************************************************************)
Line(prefix, text) == [prefix |-> prefix, text |-> text]

\* "if text_buffer.strip(): print(...)"
Flush(text_buffer, out) ==
    IF text_buffer # <<>> THEN Append(out, Line("[SUBAGENT]", text_buffer)) ELSE out

RECURSIVE Supervise(_, _, _)
\* the body of "async for event in subagent.agentic_loop()"
Supervise(evs, text_buffer, out) ==
    IF evs = <<>> THEN [text_buffer |-> text_buffer, out |-> out]
    ELSE LET e == Head(evs) IN
         IF e.type = "Text"
         THEN Supervise(Tail(evs), text_buffer \o e.text, out)
         ELSE IF e.type = "ToolUse"
         THEN Supervise(Tail(evs), <<>>,
                        Append(Flush(text_buffer, out),
                               Line("[SUBAGENT TOOL]", <<e.name>>)))
         ELSE IF e.type = "ToolResult"
         THEN Supervise(Tail(evs), <<>>,
                        Append(Flush(text_buffer, out),
                               Line("[SUBAGENT RESULT]", e.text)))
         ELSE Supervise(Tail(evs), text_buffer, out)

\* the except clause swallows the exception and prints nothing
OnSubagentExceptionSilent(out) == out

\* lines 880-881: print(f"[SUBAGENT ERROR] {str(e)}")
OnSubagentException(out) == Append(out, Line("[SUBAGENT ERROR]", <<"RetryError">>))

\* everything the task of subagent s has printed
SubagentOutput(s) ==
    LET r == Supervise(events[s], <<>>, <<>>)
    IN  IF status[s] = "returned"
        THEN Append(Flush(r.text_buffer, r.out),
                    Line("[SUBAGENT]", <<"Task completed successfully.">>))
        ELSE IF status[s] = "raised" THEN OnSubagentException(r.out)
        ELSE r.out

(***************************************************************************)
(* What a whole stream yields and accumulates, computed from its chunks.   *)
(***************************************************************************)
RECURSIVE Accumulate(_, _)
\* lines 107-145 run over a whole stream, from the accumulators acc
Accumulate(acc, chunks) ==
    IF chunks = <<>> THEN acc
    ELSE LET r == ApplyChunk(acc, Head(chunks))
         IN  Accumulate([content |-> r.content, calls |-> r.calls,
                         events |-> acc.events \o r.events], Tail(chunks))

\* the events a stream yields when it is consumed from empty accumulators
StreamEvents(chunks) ==
    Accumulate([content |-> <<>>, calls |-> <<>>, events |-> <<>>], chunks).events

(***************************************************************************)
(* Vocabulary of the properties.                                           *)
(***************************************************************************)
Frames(l) == {stack[l][d] : d \in 1..Len(stack[l])}

RECURSIVE AllDeltas(_)
\* the tool-call increments of a chunk sequence, in arrival order
AllDeltas(chunks) ==
    IF chunks = <<>> THEN <<>>
    ELSE Head(chunks).tool_calls \o AllDeltas(Tail(chunks))

RECURSIVE ArgumentsFor(_, _)
\* the arguments increments that carry index, concatenated in arrival order
ArgumentsFor(deltas, index) ==
    IF deltas = <<>> THEN <<>>
    ELSE (IF Head(deltas).index = index /\ Head(deltas).hasFn
          THEN Head(deltas).arguments ELSE <<>>)
         \o ArgumentsFor(Tail(deltas), index)

Carried(deltas, index) == \E j \in 1..Len(deltas) : deltas[j].index = index

Indices == {c.tool_calls[j].index : <<c, j>> \in
              {<<c, j>> \in Fragments \X (1..2) : j <= Len(c.tool_calls)}}

RECURSIVE TextOf(_)
\* the texts of the Text events of evs, concatenated in emission order
TextOf(evs) ==
    IF evs = <<>> THEN <<>>
    ELSE (IF Head(evs).type = "Text" THEN Head(evs).text ELSE <<>>)
         \o TextOf(Tail(evs))

RECURSIVE ContentOf(_)
\* the text increments of a chunk sequence, concatenated in arrival order
ContentOf(chunks) ==
    IF chunks = <<>> THEN <<>>
    ELSE Head(chunks).content \o ContentOf(Tail(chunks))

TextOnly(chunks) == \A j \in 1..Len(chunks) : chunks[j].tool_calls = <<>>

\* the for loop of the frame is over without an exception
DispatchOver(f) == f.pc = "dispatch" /\ f.i > Len(f.calls)

(***************************************************************************)
(* C1.  A cycle (request, stream, dispatch) that executed k >= 1 tool      *)
(* calls has appended exactly 2k messages when its dispatch is over: for   *)
(* the j-th executed call an assistant message referencing that call and   *)
(* then its tool-result message; and it starts exactly one recursive       *)
(* invocation: it is about to recurse when its dispatch is over, and has   *)
(* recursed exactly once while the inner invocation runs and when it       *)
(* returns.                                                                *)
(***************************************************************************)
C1_TwoMessagesPerCallOneRecursion ==
    \A l \in Loops : \A f \in Frames(l) :
        LET k == Len(f.dispatched) IN
        (k >= 1 /\ (DispatchOver(f) \/ f.pc \in {"recursing", "returning"})) =>
            /\ Len(messages[l]) >= f.msgStart + 2 * k
            /\ \A j \in 1..k :
                 /\ messages[l][f.msgStart + 2 * j - 1].role = "assistant"
                 /\ messages[l][f.msgStart + 2 * j - 1].tool_calls
                      = <<ToolCall(f.dispatched[j])>>
                 /\ messages[l][f.msgStart + 2 * j].role = "tool"
                 /\ messages[l][f.msgStart + 2 * j].tool_call_id = f.dispatched[j].id
            /\ DispatchOver(f) =>
                 /\ Len(messages[l]) = f.msgStart + 2 * k
                 /\ f.recursed = 0
                 /\ WillRecurse(f)
            /\ f.pc \in {"recursing", "returning"} => f.recursed = 1

\* a cycle that executed two calls, recursed once, and whose inner invocation returned
C1_Witness ==
    \E l \in Loops : \E f \in Frames(l) :
        /\ f.pc = "returning" /\ Len(f.dispatched) = 2 /\ f.recursed = 1
        /\ Len(messages[l]) = f.msgStart + 4

(***************************************************************************)
(* C2 (as claimed).  In a cycle in which the arguments of some entry fail  *)
(* to parse, no tool is invoked and no recursive invocation is started.    *)
(***************************************************************************)
C2_ParseFailureInvokesNothing ==
    \A l \in Loops : \A f \in Frames(l) :
        f.parseFailed => (f.dispatched = <<>> /\ f.recursed = 0)

(***************************************************************************)
(* C3.  While every request of the invocation has failed in transport, at  *)
(* most 3 requests have been issued; after the third the retry scope has   *)
(* given up, no fourth request follows, and the invocation has not         *)
(* stopped before the third.                                               *)
(***************************************************************************)
AllRequestsFailed(l) == requests[l] >= 1 /\ transportFailures[l] = requests[l]

C3_ThreeAttemptsThenStop ==
    /\ [](\A l \in Loops : AllRequestsFailed(l) =>
            /\ requests[l] <= 3
            /\ requests[l] = 3 =>
                 \/ status[l] = "raised"
                 \/ (Running(l) /\ Len(stack[l]) = 1 /\ Top(l).pc = "raised")
            /\ status[l] # "running" => requests[l] = 3)
    /\ [][\A l \in Loops :
            (AllRequestsFailed(l) /\ requests[l] = 3 /\ status[l] = "running")
               => requests'[l] = 3]_vars

\* three requests, three transport failures, and the invocation has stopped
C3_Witness ==
    \E l \in Loops :
        status[l] = "raised" /\ requests[l] = 3 /\ transportFailures[l] = 3

(***************************************************************************)
(* C4 (as claimed).  When a retry scope has given up, the invocation ends  *)
(* by returning, with an error Text event as the last event of its stream: *)
(* no exception escapes the loop.                                          *)
(***************************************************************************)
C4_ExhaustionEndsWithErrorText ==
    \A l \in Loops :
        (exhausted[l] /\ status[l] # "running") =>
            /\ status[l] = "returned"
            /\ events[l] # <<>>
            /\ events[l][Len(events[l])].type = "Text"

(***************************************************************************)
(* C5 (as claimed).  When the first two attempts of the outermost cycle    *)
(* failed in transport and the stream of the third has been consumed, the  *)
(* caller has seen exactly the events of that stream, and the history is   *)
(* the one the request was built from.                                     *)
(***************************************************************************)
C5_RetriedRoundLooksClean ==
    \A l \in Loops :
        ( /\ Running(l) /\ Len(stack[l]) = 1
          /\ Top(l).attempt = 3 /\ requests[l] = 3 /\ transportFailures[l] = 2
          /\ Top(l).pc = "dispatch" /\ Top(l).i = 1
          /\ Top(l).dispatched = <<>> /\ ~Top(l).parseFailed )
        => /\ events[l] = StreamEvents(Top(l).chunks)
           /\ lastRequest[l] = BuildRequest(SystemPromptOf(l), messages[l])

(***************************************************************************)
(* C6 (as claimed).  Once some retry scope of the invocation has failed 3  *)
(* times, no more requests are issued in that invocation.                  *)
(***************************************************************************)
C6_NoRequestAfterExhaustion ==
    [][\A l \in Loops :
         (exhausted[l] /\ status[l] = "running") => requests'[l] = requests[l]]_vars

(***************************************************************************)
(* C7 (as claimed).  After a tool invocation has raised, the invocation of *)
(* the loop issues no further request and invokes no further tool.         *)
(***************************************************************************)
C7_ToolExceptionEndsLoop ==
    [][\A l \in Loops :
         (toolRaised[l] /\ status[l] = "running") =>
            (requests'[l] = requests[l] /\ toolCalls'[l] = toolCalls[l])]_vars

(***************************************************************************)
(* C8.  At every point of a stream and at its end, the map holds an entry  *)
(* for exactly the indices the chunks so far have carried, and the         *)
(* arguments of the entry of index i are the concatenation, in arrival     *)
(* order, of the arguments increments of the deltas that carry i.          *)
(***************************************************************************)
C8_ArgumentsAreConcatenation ==
    \A l \in Loops : \A f \in Frames(l) :
        ~f.parseFailed =>
            LET deltas == AllDeltas(f.chunks) IN
            /\ \A index \in Indices :
                 Carried(deltas, index) <=> HasKey(f.calls, Key(index))
            /\ \A index \in Indices : \A p \in 1..Len(f.calls) :
                 f.calls[p].key = Key(index) =>
                    f.calls[p].arguments = ArgumentsFor(deltas, index)

\* a finished stream in which an increment of index 1 arrived between two of index 0
C8_Witness ==
    \E l \in Loops : \E f \in Frames(l) :
        /\ f.pc = "dispatch" /\ Len(f.chunks) = 3
        /\ \A j \in 1..3 : Len(f.chunks[j].tool_calls) = 1
        /\ f.chunks[1].tool_calls[1].index = 0
        /\ f.chunks[2].tool_calls[1].index = 1
        /\ f.chunks[3].tool_calls[1].index = 0
        /\ \A j \in 1..3 : f.chunks[j].tool_calls[1].arguments # <<>>
        /\ \E p \in 1..Len(f.calls) : f.calls[p].arguments = <<"{", "k", "}">>

(***************************************************************************)
(* C9.  While the chunks of the current attempt carry only text, the       *)
(* texts of the Text events the attempt has emitted, concatenated in       *)
(* emission order, are the text increments of its chunks concatenated in   *)
(* arrival order.                                                          *)
(***************************************************************************)
C9_TextEventsAreTheIncrements ==
    \A l \in Loops :
        (Running(l) /\ TextOnly(Top(l).chunks)) =>
            TextOf(SubSeq(events[l], Top(l).evStart + 1, Len(events[l])))
                = ContentOf(Top(l).chunks)

\* a finished text-only stream of two different increments
C9_Witness ==
    \E l \in Loops :
        /\ Running(l) /\ Top(l).pc = "dispatch"
        /\ Len(Top(l).chunks) >= 2 /\ TextOnly(Top(l).chunks)
        /\ Top(l).chunks[1].content # Top(l).chunks[2].content
        /\ Top(l).chunks[1].content # <<>>
        /\ Top(l).chunks[2].content # <<>>

(***************************************************************************)
(* C10.  After a cycle whose dispatch ended with no tool executed (empty   *)
(* map, parse failure before any call, only unmatched names), the          *)
(* invocation issues no further request, invokes no tool and starts no     *)
(* recursive invocation.                                                   *)
(***************************************************************************)
C10_ZeroDispatchEndsInvocation ==
    [][\A l \in Loops :
         (zeroRound[l] /\ status[l] = "running") =>
            /\ requests'[l] = requests[l]
            /\ toolCalls'[l] = toolCalls[l]
            /\ Len(stack'[l]) <= Len(stack[l])]_vars

\* an invocation that returned after a tool cycle followed by a cycle without tools
C10_Witness ==
    \E l \in Loops :
        status[l] = "returned" /\ zeroRound[l] /\ toolCalls[l] >= 1 /\ requests[l] >= 2

(***************************************************************************)
(* C11.  Every invocation of the loop in which no retry scope gives up     *)
(* eventually returns (the endpoint's turns with tool calls are finite     *)
(* here, and the request cap of the model is the only other way to stay    *)
(* running); and a cycle whose dispatch is over with a tool executed       *)
(* always goes on by starting a new invocation, at any depth.              *)
(***************************************************************************)
Capped(l) == Running(l) /\ Top(l).pc = "attempt" /\ requests[l] >= MaxRequests

FullCalls(f) ==
    Accumulate([content |-> <<>>, calls |-> <<>>, events |-> <<>>], f.chunks).calls

RECURSIVE FirstSeen(_, _)
\* the keys of the indices of deltas, each once, in the order of first arrival
FirstSeen(deltas, seen) ==
    IF deltas = <<>> THEN <<>>
    ELSE LET k == Key(Head(deltas).index)
         IN  (IF k \in seen THEN <<>> ELSE <<k>>)
             \o FirstSeen(Tail(deltas), seen \cup {k})

KeysOf(calls) == [j \in 1..Len(calls) |-> calls[j].key]

\* the tool instance built from an entry
ToolOf(entry) == [name |-> entry.name, args |-> JsonLoads(entry.arguments).value]

RECURSIVE PairsOf(_)
\* EventToolUse then EventToolResult for each entry, in order
PairsOf(entries) ==
    IF entries = <<>> THEN <<>>
    ELSE <<EventToolUse(ToolOf(Head(entries))),
           EventToolResult(ToolOf(Head(entries)), ToolResultText(ToolOf(Head(entries))))>>
         \o PairsOf(Tail(entries))

\* what the current attempt of the innermost frame has yielded since its stream ended
DispatchEvents(l) ==
    SubSeq(events[l], Top(l).evStart + Len(StreamEvents(Top(l).chunks)) + 1,
           Len(events[l]))

ToolEvents(evs) == SelectSeq(evs, LAMBDA e : e.type \in {"ToolUse", "ToolResult"})

ErrorTexts(evs) == SelectSeq(evs, LAMBDA e : e.type = "Text")

(***************************************************************************)
(* C12.  In one cycle the entries stand in the order their indices first   *)
(* arrived in the stream, the calls dispatched so far are the matching     *)
(* entries before the loop position in that order, and the events of the   *)
(* dispatch are ToolUse, ToolResult of the first call, then of the second, *)
(* and so on: a call is invoked only after the one before it has returned. *)
(***************************************************************************)
C12_SequentialInFirstSeenOrder ==
    \A l \in Loops :
        (Running(l) /\ Top(l).pc \in {"dispatch", "invoking"}) =>
            LET f == Top(l) IN
            /\ ~f.parseFailed =>
                 /\ KeysOf(f.calls) = FirstSeen(AllDeltas(f.chunks), {})
                 /\ f.dispatched
                      = SelectSeq(SubSeq(f.calls, 1, f.i - 1),
                                  LAMBDA e : Matches(l, e.name))
            /\ ToolEvents(DispatchEvents(l))
                 = PairsOf(f.dispatched)
                   \o (IF f.pc = "invoking" THEN <<EventToolUse(f.tool)>> ELSE <<>>)
            /\ f.pc = "invoking" => f.tool = ToolOf(f.calls[f.i])

\* index 1 arrived before index 0, and both calls were dispatched in that order
C12_Witness ==
    \E l \in Loops :
        /\ Running(l) /\ Top(l).pc = "dispatch"
        /\ Len(Top(l).dispatched) = 2
        /\ Top(l).dispatched[1].key = Key(1)
        /\ Top(l).dispatched[2].key = Key(0)

(***************************************************************************)
(* C13.  In every state, each tool-result message of the history stands    *)
(* right after an assistant message that references exactly one call,      *)
(* whose id is the tool-result message's tool_call_id, and each assistant  *)
(* message that references a call is followed at once by such a message.   *)
(***************************************************************************)
C13_CallAndResultAdjacent ==
    \A l \in Loops : \A p \in 1..Len(messages[l]) :
        LET m == messages[l][p] IN
        /\ m.role = "tool" =>
             /\ p > 1
             /\ messages[l][p - 1].role = "assistant"
             /\ Len(messages[l][p - 1].tool_calls) = 1
             /\ messages[l][p - 1].tool_calls[1].id = m.tool_call_id
        /\ (m.role = "assistant" /\ m.tool_calls # <<>>) =>
             /\ p < Len(messages[l])
             /\ messages[l][p + 1].role = "tool"
             /\ messages[l][p + 1].tool_call_id = m.tool_calls[1].id

\* a call whose id was replaced during the stream, recorded under the later id
C13_Witness ==
    \E l \in Loops : \E p \in 1..Len(messages[l]) :
        /\ messages[l][p].role = "tool"
        /\ messages[l][p].tool_call_id = "c9"

(***************************************************************************)
(* C19.  The step that passes an entry whose name no registered tool has   *)
(* yields no event, appends no message, counts no call and executes        *)
(* nothing; the for loop stays in the dispatch at the next entry.          *)
(***************************************************************************)
C19_UnmatchedDroppedSilently ==
    [][\A l \in Loops :
         (/\ AtEntry(l)
          /\ JsonLoads(Entry(l).arguments).ok
          /\ ~Matches(l, Entry(l).name)
          /\ stack'[l] # stack[l])
            => /\ events'[l] = events[l]
               /\ messages'[l] = messages[l]
               /\ toolCalls'[l] = toolCalls[l]
               /\ Len(stack'[l]) = Len(stack[l])
               /\ stack'[l][Len(stack'[l])]
                    = [Top(l) EXCEPT !.i = @ + 1]]_vars

\* an unmatched entry came first, and the entry after it was dispatched
C19_Witness ==
    \E l \in Loops :
        /\ Running(l) /\ Top(l).pc = "dispatch"
        /\ Len(Top(l).calls) = 2
        /\ ~Matches(l, Top(l).calls[1].name)
        /\ Top(l).dispatched = <<Top(l).calls[2]>>

(***************************************************************************)
(* C20.  The step on which the arguments of an entry fail to parse yields  *)
(* one error Text event and leaves no entry to process; while the frame    *)
(* stays in that attempt nothing more is yielded, invoked or appended, so  *)
(* the dispatch of the cycle holds exactly one error Text event.           *)
(***************************************************************************)
C20_ParseFailureDiscardsTheRest ==
    /\ [](\A l \in Loops :
            (Running(l) /\ Top(l).parseFailed /\ Top(l).pc = "dispatch") =>
                /\ Len(ErrorTexts(DispatchEvents(l))) = 1
                /\ LoopOver(l))
    /\ [][\A l \in Loops :
            /\ (AtEntry(l) /\ ~JsonLoads(Entry(l).arguments).ok
                  /\ stack'[l] # stack[l])
                 => /\ events'[l]
                         = Append(events[l], EventText(ParseError(Entry(l).arguments)))
                    /\ messages'[l] = messages[l]
                    /\ toolCalls'[l] = toolCalls[l]
                    /\ Len(stack'[l]) = Len(stack[l])
                    /\ stack'[l][Len(stack'[l])].calls = <<>>
                    /\ stack'[l][Len(stack'[l])].dispatched = Top(l).dispatched
            /\ (Running(l) /\ Top(l).parseFailed /\ Len(stack'[l]) = Len(stack[l]))
                 => /\ events'[l] = events[l]
                    /\ messages'[l] = messages[l]
                    /\ toolCalls'[l] = toolCalls[l]]_vars

\* the second of three entries failed to parse: the third was never looked at
C20_Witness ==
    \E l \in Loops :
        /\ Running(l) /\ Top(l).parseFailed /\ LoopOver(l)
        /\ Len(FullCalls(Top(l))) = 3
        /\ JsonLoads(FullCalls(Top(l))[1].arguments).ok
        /\ ~JsonLoads(FullCalls(Top(l))[2].arguments).ok

(***************************************************************************)
(* Vocabulary of the subagent properties.                                  *)
(***************************************************************************)
\* this step ends an invocation of the spawn tool by loop l
SpawnReturns(l) ==
    /\ Runs(l) /\ Top(l).pc = "invoking" /\ Top(l).tool.name = SpawnTool
    /\ stack'[l] # stack[l]

\* this step creates subagent s
Spawns(s) == status[s] = "absent" /\ status'[s] # "absent"

\* the innermost frame of loop l after the step
TopAfter(l) == stack'[l][Len(stack'[l])]

\* this step is one on which an attempt of loop s fails or its loop gives up
Fails(s) ==
    /\ cpu = s /\ Running(s)
    /\ \/ status'[s] = "raised"
       \/ /\ stack'[s] # <<>>
          /\ TopAfter(s).pc \in {"wait", "raised"}
          /\ \/ Len(stack'[s]) # Len(stack[s])
             \/ Top(s).pc \notin {"wait", "raised"}

\* what subagent_prompter returns for a query
SubagentPrompter(query) == <<"[SUBAGENT REQUESTS CLARIFICATION] ">> \o query

(***************************************************************************)
(* C14.  The step on which the spawn tool returns leaves the launcher      *)
(* executing, in its dispatch, with the tool's result as its newest event; *)
(* the subagent, if one was created, is only scheduled: as long as it is,  *)
(* it has issued no request, yielded no event and entered no invocation.   *)
(***************************************************************************)
C14_SpawnReturnsBeforeSubagentRuns ==
    /\ [](\A s \in Subagents :
            status[s] \in {"absent", "scheduled"} =>
                requests[s] = 0 /\ events[s] = <<>> /\ stack[s] = <<>>)
    /\ [][\A l \in Launchers :
            SpawnReturns(l) =>
               /\ cpu' = l
               /\ Len(stack'[l]) = Len(stack[l])
               /\ TopAfter(l).pc = "dispatch"
               /\ Len(events'[l]) = Len(events[l]) + 1
               /\ events'[l][Len(events'[l])].type = "ToolResult"
               /\ \A s \in Subagents :
                    /\ status'[s] \in {"absent", "scheduled"}
                    /\ Spawns(s) =>
                         events'[l][Len(events'[l])]
                           = EventToolResult(Top(l).tool,
                                             Ack(TaskOf(Top(l).tool.args)))]_vars

\* the launcher's invocation has returned and the subagent has not started
C14_Witness ==
    \E l \in Launchers : \E s \in Subagents :
        /\ status[l] = "returned" /\ toolCalls[l] >= 1
        /\ status[s] = "scheduled" /\ requests[s] = 0

(***************************************************************************)
(* C15.  No step taken while a subagent's coroutine executes changes the   *)
(* launcher's event stream, and the step that creates a subagent adds to   *)
(* it exactly the spawn tool's ToolResult, after the ToolUse of that call. *)
(***************************************************************************)
C15_SubagentEventsStayOutOfLauncherStream ==
    [][\A l \in Launchers : \A s \in Subagents :
         /\ cpu = s => events'[l] = events[l]
         /\ events'[s] # events[s] => (cpu = s /\ events'[l] = events[l])
         /\ Spawns(s) =>
              /\ events[l][Len(events[l])] = EventToolUse(Top(l).tool)
              /\ events'[l]
                   = Append(events[l],
                            EventToolResult(Top(l).tool,
                                            Ack(TaskOf(Top(l).tool.args))))]_vars

\* the subagent has yielded a Text, a ToolUse and a ToolResult event, and
\* the launcher's stream holds the tool events of its spawn call only
C15_Witness ==
    \E l \in Launchers : \E s \in Subagents :
        /\ \E j \in 1..Len(events[s]) : events[s][j].type = "Text"
        /\ \E j \in 1..Len(events[s]) : events[s][j].type = "ToolResult"
        /\ Len(ToolEvents(events[l])) = 2
        /\ ToolEvents(events[l])[1].name = SpawnTool
        /\ ToolEvents(events[l])[2].name = SpawnTool
        /\ ErrorTexts(events[l]) = <<>>

(***************************************************************************)
(* C16.  A step on which an attempt of a subagent fails, or on which its   *)
(* loop gives up, leaves the launcher's history, invocations, attempt      *)
(* numbers, status and failure records as they are; and when the           *)
(* subagent's loop has given up, the last line its task printed is the     *)
(* error line.                                                             *)
(***************************************************************************)
C16_SubagentFailureIsContained ==
    /\ [](\A s \in Subagents :
            status[s] = "raised" =>
                /\ SubagentOutput(s) # <<>>
                /\ SubagentOutput(s)[Len(SubagentOutput(s))].prefix = "[SUBAGENT ERROR]")
    /\ [][\A l \in Launchers : \A s \in Subagents :
            Fails(s) =>
               /\ messages'[l] = messages[l]
               /\ stack'[l] = stack[l]
               /\ status'[l] = status[l]
               /\ events'[l] = events[l]
               /\ requests'[l] = requests[l]
               /\ transportFailures'[l] = transportFailures[l]
               /\ toolRaised'[l] = toolRaised[l]
               /\ exhausted'[l] = exhausted[l]]_vars

\* the subagent's loop gave up after a tool exception, and the launcher's
\* invocation, in which nothing was exhausted, returned after that
C16_Witness ==
    \E l \in Launchers : \E s \in Subagents :
        /\ status[s] = "raised" /\ toolRaised[s]
        /\ status[l] = "returned" /\ ~exhausted[l] /\ ~toolRaised[l]

(***************************************************************************)
(* C17.  A subagent is created with a history of exactly one user message, *)
(* the task, and the step that creates it adds to the launcher's history   *)
(* the two messages of the spawn call, the acknowledgement being the tool  *)
(* result; after that no step of one loop changes the history, the         *)
(* invocations or the last request of the other, and a subagent's request  *)
(* is its own prompt followed by its own history.                          *)
(***************************************************************************)
C17_HistoriesAreNotShared ==
    /\ [](\A s \in Subagents :
            /\ status[s] = "absent" => messages[s] = <<>>
            /\ status[s] # "absent" =>
                 /\ messages[s] # <<>>
                 /\ messages[s][1].role = "user"
                 /\ \A p \in 2..Len(messages[s]) : messages[s][p].role # "user"
            /\ status[s] = "scheduled" => Len(messages[s]) = 1
            /\ requests[s] >= 1 =>
                 /\ lastRequest[s][1] = SystemMessage(SubagentPrompt)
                 /\ lastRequest[s][2] = messages[s][1]
                 /\ Len(lastRequest[s]) <= 1 + Len(messages[s]))
    /\ [][\A l \in Launchers : \A s \in Subagents :
            /\ Spawns(s) =>
                 /\ messages'[s]
                      = <<UserMessage(TaskMessage(TaskOf(Top(l).tool.args)))>>
                 /\ messages'[l]
                      = messages[l]
                        \o <<AssistantMessage(Top(l).content, ToolCall(Entry(l))),
                             ToolMessage(Entry(l).id, Ack(TaskOf(Top(l).tool.args)))>>
            /\ cpu = s =>
                 /\ messages'[l] = messages[l]
                 /\ stack'[l] = stack[l]
                 /\ lastRequest'[l] = lastRequest[l]
            /\ (cpu = l /\ ~Spawns(s)) =>
                 /\ messages'[s] = messages[s]
                 /\ stack'[s] = stack[s]
                 /\ lastRequest'[s] = lastRequest[s]]_vars

\* both loops have appended to their own histories, the subagent while the
\* launcher was waiting in the middle of an invocation
C17_Witness ==
    \E l \in Launchers : \E s \in Subagents :
        /\ Running(l) /\ cpu = s
        /\ Len(messages[s]) = 3
        /\ messages[s][1] = UserMessage(TaskMessage(<<"k">>))
        /\ Len(messages[l]) >= 3

(***************************************************************************)
(* C18 (as claimed).  The step that ends a subagent's invocation of the    *)
(* user-interaction tool yields ToolResult with the placeholder string,    *)
(* appends the two messages of the call and leaves the loop in its         *)
(* dispatch.                                                               *)
(***************************************************************************)
C18_SubagentInteractionReturnsPlaceholder ==
    [][\A s \in Subagents :
         (/\ Running(s) /\ cpu = s
          /\ Top(s).pc = "invoking" /\ Top(s).tool.name = InteractTool
          /\ stack'[s] # stack[s])
            => /\ events'[s]
                    = Append(events[s],
                             EventToolResult(Top(s).tool,
                                             SubagentPrompter(TaskOf(Top(s).tool.args))))
               /\ messages'[s]
                    = messages[s]
                      \o CallMessages(Top(s), SubagentPrompter(TaskOf(Top(s).tool.args)))
               /\ Len(stack'[s]) = Len(stack[s])
               /\ TopAfter(s).pc = "dispatch"]_vars

(***************************************************************************)
(* C21 (as claimed).  An attempt in which the arguments of an entry failed *)
(* to parse is never counted as failed: the frame of that attempt keeps    *)
(* its attempt number and never waits for another attempt or gives up, so  *)
(* the request of that cycle is not issued again.                          *)
(***************************************************************************)
C21_ParseFailureNeverRetried ==
    [][\A l \in Loops : \A d \in 1..Len(stack[l]) :
         (stack[l][d].parseFailed /\ d <= Len(stack'[l])) =>
            /\ stack'[l][d].attempt = stack[l][d].attempt
            /\ stack'[l][d].pc \notin {"wait", "raised"}]_vars

(***************************************************************************)
(* Vocabulary of the accumulator properties.                               *)
(***************************************************************************)
\* what the current attempt of the innermost frame has yielded
AttemptEvents(l) == SubSeq(events[l], Top(l).evStart + 1, Len(events[l]))

JsonOf(evs) == SelectSeq(evs, LAMBDA e : e.type = "InputJson")

RECURSIVE PayloadsOfAll(_, _)
\* one payload per increment of rest: the arguments increments received for
\* its index up to and including it (done are the increments before rest)
PayloadsOfAll(done, rest) ==
    IF rest = <<>> THEN <<>>
    ELSE LET d == Head(rest)
         IN  <<EventInputJson(ArgumentsFor(Append(done, d), d.index))>>
             \o PayloadsOfAll(Append(done, d), Tail(rest))

RECURSIVE PayloadsOfFn(_, _)
\* the same, for the increments that carry a function part only
PayloadsOfFn(done, rest) ==
    IF rest = <<>> THEN <<>>
    ELSE LET d == Head(rest)
         IN  (IF d.hasFn
              THEN <<EventInputJson(ArgumentsFor(Append(done, d), d.index))>>
              ELSE <<>>)
             \o PayloadsOfFn(Append(done, d), Tail(rest))

(***************************************************************************)
(* C22 (as claimed).  While a stream is consumed, the InputJson events of  *)
(* the attempt are one per tool-call increment received, in arrival order, *)
(* each carrying the concatenation of the arguments increments received so *)
(* far for the increment's index.                                          *)
(***************************************************************************)
C22_OneEventPerIncrement ==
    \A l \in Loops :
        (Running(l) /\ Top(l).pc = "stream") =>
            JsonOf(AttemptEvents(l)) = PayloadsOfAll(<<>>, AllDeltas(Top(l).chunks))

(***************************************************************************)
(* C22 (amended).  While a stream is consumed, the InputJson events of the *)
(* attempt are one per tool-call increment that carries a function part,   *)
(* in arrival order, each emitted after the entry is updated and carrying  *)
(* the concatenation of the arguments increments received so far for the   *)
(* increment's index; an increment without a function part yields no       *)
(* event.  The last payload of an index is the arguments its entry holds.  *)
(***************************************************************************)
C22_OneEventPerFunctionIncrement ==
    \A l \in Loops :
        (Running(l) /\ Top(l).pc = "stream") =>
            LET deltas == AllDeltas(Top(l).chunks) IN
            /\ JsonOf(AttemptEvents(l)) = PayloadsOfFn(<<>>, deltas)
            /\ \A p \in 1..Len(Top(l).calls) : \A j \in 1..Len(deltas) :
                 (/\ Key(deltas[j].index) = Top(l).calls[p].key
                  /\ deltas[j].hasFn
                  /\ \A k \in (j + 1)..Len(deltas) :
                        ~(deltas[k].index = deltas[j].index /\ deltas[k].hasFn))
                 => ArgumentsFor(SubSeq(deltas, 1, j), deltas[j].index)
                       = Top(l).calls[p].arguments

\* a stream of two arguments increments of one index around an increment of
\* that index that has no function part
C22_Witness ==
    \E l \in Loops :
        /\ Running(l) /\ Top(l).pc = "stream"
        /\ LET deltas == AllDeltas(Top(l).chunks) IN
           /\ Len(deltas) = 3
           /\ \A j \in 1..3 : deltas[j].index = 1
           /\ deltas[1].hasFn /\ deltas[1].arguments # <<>>
           /\ ~deltas[2].hasFn
           /\ deltas[3].hasFn /\ deltas[3].arguments # <<>>
        /\ Len(JsonOf(AttemptEvents(l))) = 2

RECURSIVE LastId(_, _, _)
\* the last non-empty id the increments of index carry, or none if there is none
LastId(deltas, index, none) ==
    IF deltas = <<>> THEN none
    ELSE LET d == deltas[Len(deltas)]
         IN  IF d.index = index /\ d.id # "" THEN d.id
             ELSE LastId(SubSeq(deltas, 1, Len(deltas) - 1), index, none)

RECURSIVE LastName(_, _, _)
\* the last non-empty name the increments of index carry, or none if there is none
LastName(deltas, index, none) ==
    IF deltas = <<>> THEN none
    ELSE LET d == deltas[Len(deltas)]
         IN  IF d.index = index /\ d.hasFn /\ d.name # "" THEN d.name
             ELSE LastName(SubSeq(deltas, 1, Len(deltas) - 1), index, none)

\* the values the increments carry for the id and the name of an index
IdsCarried(deltas, index) ==
    {deltas[j].id : j \in {k \in 1..Len(deltas) : deltas[k].index = index}} \ {""}

NamesCarried(deltas, index) ==
    {deltas[j].name : j \in {k \in 1..Len(deltas) :
                               deltas[k].index = index /\ deltas[k].hasFn}} \ {""}

(***************************************************************************)
(* C23.  At every point of a stream and at its end, the entry of an index  *)
(* holds as its name the last non-empty name an increment of that index    *)
(* has carried (no name while none has), and, once an increment of that    *)
(* index has carried an id, the last non-empty id carried.  An increment   *)
(* with an empty id or name leaves the stored value as it is, and a stored *)
(* id or name is always one of the carried values, never a concatenation   *)
(* of several.                                                             *)
(***************************************************************************)
C23_LastNonEmptyWriteWins ==
    \A l \in Loops : \A f \in Frames(l) :
        ~f.parseFailed =>
            LET deltas == AllDeltas(f.chunks) IN
            \A index \in Indices : \A p \in 1..Len(f.calls) :
                f.calls[p].key = Key(index) =>
                    /\ f.calls[p].name = LastName(deltas, index, "")
                    /\ f.calls[p].name \in NamesCarried(deltas, index) \cup {""}
                    /\ IdsCarried(deltas, index) # {} =>
                          /\ f.calls[p].id = LastId(deltas, index, "")
                          /\ f.calls[p].id \in IdsCarried(deltas, index)

\* a finished stream in which index 0 was named Foo and then Bar, by an
\* increment that carries no id
C23_Witness ==
    \E l \in Loops : \E f \in Frames(l) :
        /\ f.pc = "dispatch" /\ ~f.parseFailed
        /\ LET deltas == AllDeltas(f.chunks) IN
           /\ Len(deltas) = 3
           /\ deltas[1].index = 0 /\ deltas[1].name = "Foo" /\ deltas[1].id = "c0"
           /\ deltas[2].index = 0 /\ deltas[2].name = "Bar" /\ deltas[2].id = ""
           /\ \E p \in 1..Len(f.calls) :
                 f.calls[p].id = "c0" /\ f.calls[p].name = "Bar"

\* the arguments increments of index are all empty or absent
NoArguments(deltas, index) == ArgumentsFor(deltas, index) = <<>>

(***************************************************************************)
(* C24 (as claimed).  An entry is created with an empty id, an empty name  *)
(* and empty arguments: at every point of a stream an index for which no   *)
(* increment has carried an id has an empty id, one for which none has     *)
(* carried a name an empty name, and one for which none has carried        *)
(* arguments empty arguments.                                              *)
(***************************************************************************)
C24_EntryStartsWithEmptyId ==
    \A l \in Loops : \A f \in Frames(l) :
        ~f.parseFailed =>
            LET deltas == AllDeltas(f.chunks) IN
            \A index \in Indices : \A p \in 1..Len(f.calls) :
                f.calls[p].key = Key(index) =>
                    /\ IdsCarried(deltas, index) = {} => f.calls[p].id = ""
                    /\ NamesCarried(deltas, index) = {} => f.calls[p].name = ""
                    /\ NoArguments(deltas, index) => f.calls[p].arguments = <<>>

(***************************************************************************)
(* C24 (amended).  An entry is created with an empty name, empty arguments *)
(* and, when the first increment of its index carries no id, the id        *)
(* call_<index>: at every point of a stream an index for which no          *)
(* increment has carried an id has the id call_<index>, never an empty     *)
(* one; one for which none has carried a name has an empty name, and one   *)
(* for which none has carried arguments has empty arguments.               *)
(***************************************************************************)
C24_EntryStartsWithFallbackId ==
    \A l \in Loops : \A f \in Frames(l) :
        ~f.parseFailed =>
            LET deltas == AllDeltas(f.chunks) IN
            \A index \in Indices : \A p \in 1..Len(f.calls) :
                f.calls[p].key = Key(index) =>
                    /\ f.calls[p].id # ""
                    /\ IdsCarried(deltas, index) = {} =>
                          f.calls[p].id = DefaultId(index)
                    /\ NamesCarried(deltas, index) = {} => f.calls[p].name = ""
                    /\ NoArguments(deltas, index) => f.calls[p].arguments = <<>>

\* a finished stream with an entry of index 2 that was never given an id and
\* an entry of index 1 that was given an id and nothing else
C24_Witness ==
    \E l \in Loops : \E f \in Frames(l) :
        /\ f.pc = "dispatch" /\ ~f.parseFailed
        /\ LET deltas == AllDeltas(f.chunks) IN
           /\ IdsCarried(deltas, 2) = {} /\ Carried(deltas, 2)
           /\ NamesCarried(deltas, 1) = {} /\ NoArguments(deltas, 1)
        /\ \E p, q \in 1..Len(f.calls) :
              /\ f.calls[p].key = Key(2) /\ f.calls[p].id = "call_2"
              /\ f.calls[q].key = Key(1) /\ f.calls[q].id = "c9"
              /\ f.calls[q].name = "" /\ f.calls[q].arguments = <<>>

\* the frame is in the body of an attempt, after its stream was created
InAttempt(f) == f.pc \in {"stream", "dispatch", "invoking", "recursing", "returning"}

\* the messages the current attempt of frame f has appended for its own calls
OwnMessages(l, f) ==
    SubSeq(messages[l], f.msgStart + 1, f.msgStart + 2 * Len(f.dispatched))

(***************************************************************************)
(* C25.  In every attempt the content buffer and the tool-call map hold    *)
(* what the stream of that attempt alone has delivered (they start empty   *)
(* and nothing of a failed attempt or an earlier round is in them; the map *)
(* is empty after a parse failure), and the assistant messages the attempt *)
(* appends carry the text of that stream and reference entries of that     *)
(* stream only.                                                            *)
(***************************************************************************)
C25_AccumulatorsLiveForOneStream ==
    \A l \in Loops : \A f \in Frames(l) :
        InAttempt(f) =>
            /\ f.content = ContentOf(f.chunks)
            /\ f.calls = IF f.parseFailed THEN <<>> ELSE FullCalls(f)
            /\ Len(messages[l]) >= f.msgStart + 2 * Len(f.dispatched)
            /\ \A j \in 1..Len(OwnMessages(l, f)) :
                 OwnMessages(l, f)[j].role = "assistant" =>
                    /\ OwnMessages(l, f)[j].content = ContentOf(f.chunks)
                    /\ \E p \in 1..Len(FullCalls(f)) :
                          OwnMessages(l, f)[j].tool_calls = <<ToolCall(FullCalls(f)[p])>>

\* a second or third attempt whose stream carried no text has executed a
\* call, after an earlier stream of the loop that did carry text
C25_Witness ==
    \E l \in Loops :
        /\ Running(l) /\ Top(l).pc = "dispatch" /\ Top(l).executed
        /\ Top(l).attempt >= 2
        /\ TextOf(SubSeq(events[l], 1, Top(l).evStart)) # <<>>
        /\ Top(l).content = <<>>
        /\ OwnMessages(l, Top(l))[1].content = <<>>

(***************************************************************************)
(* C26.  Every step that issues a request (whether create() returns a      *)
(* stream or raises) sends the system prompt of the loop followed by the   *)
(* whole history of the loop as it is at that step, in order and without   *)
(* omission, and leaves the history as it is.                              *)
(***************************************************************************)
C26_RequestIsPromptThenWholeHistory ==
    [][\A l \in Loops :
          requests'[l] = requests[l] + 1 =>
             /\ Len(lastRequest'[l]) = 1 + Len(messages[l])
             /\ lastRequest'[l][1] = SystemMessage(SystemPromptOf(l))
             /\ \A j \in 1..Len(messages[l]) : lastRequest'[l][j + 1] = messages[l][j]
             /\ messages'[l] = messages[l]]_vars

\* the stream of a recursive round is being read: its request held the user
\* message and the two messages of the call of the round before, in order
C26_Witness ==
    \E l \in Loops :
        /\ Running(l) /\ Len(stack[l]) >= 2 /\ Top(l).pc = "stream"
        /\ Len(lastRequest[l]) >= 4
        /\ lastRequest[l][1].role = "system"
        /\ lastRequest[l][2].role = "user"
        /\ lastRequest[l][3].role = "assistant"
        /\ lastRequest[l][4].role = "tool"
        /\ SubSeq(lastRequest[l], 2, Len(lastRequest[l])) = messages[l]

\* sequence a is an initial part of sequence b
IsPrefix(a, b) == Len(a) <= Len(b) /\ SubSeq(b, 1, Len(a)) = a

(***************************************************************************)
(* C27.  Every step of the program (add_user_message, request, chunk,      *)
(* dispatch, tool return, failed attempt, retry, recursion, return) leaves *)
(* the history of each loop an initial part of the history after the step: *)
(* messages are only added at the end, none is removed, moved or changed.  *)
(* Prefix order being transitive, the history at any earlier point is a    *)
(* prefix of the history at every later point.                             *)
(***************************************************************************)
C27_HistoryIsAppendOnly ==
    [][\A l \in Loops : IsPrefix(messages[l], messages'[l])]_vars

\* the history after a user message, a round that executed a call, a failed
\* attempt and a call executed in a later attempt or round
C27_Witness ==
    \E l \in Loops :
        /\ transportFailures[l] >= 1 \/ toolRaised[l]
        /\ Len(messages[l]) >= 5
        /\ messages[l][1].role = "user"
        /\ messages[l][2].role = "assistant" /\ messages[l][3].role = "tool"
        /\ messages[l][4].role = "assistant" /\ messages[l][5].role = "tool"

(***************************************************************************)
(* Agent construction (agent.py 61-73) and the lookup of a tool by name    *)
(* (agent.py 165-166, 190).  A tool class is an object with a __name__;    *)
(* two different classes can have the same __name__.                       *)
(***************************************************************************)
\* the longest tool list an Agent is constructed from
MaxTools == 3

ToolClasses ==
    { [name |-> "Foo", cls |-> "A"],
      [name |-> "Foo", cls |-> "B"],
      [name |-> "Bar", cls |-> "C"] }

ToolLists == UNION {[1..n -> ToolClasses] : n \in 0..MaxTools}

\* the names a tool call can carry
ToolNames == {"Foo", "Bar", "Nope"}

\* the schema built for one class
Schema(tool_class) == [type |-> "function", name |-> tool_class.name]

\* the dataclass stores tools; __post_init__ appends one schema per class
PostInit(tools) ==
    [constructed |-> TRUE, tools |-> tools,
     available_tools |-> [j \in 1..Len(tools) |-> Schema(tools[j])]]

\* for tool_class in self.tools: if tool_class.__name__ == tool_name: ... break
FirstMatch(tools, tool_name) ==
    IF \E j \in 1..Len(tools) : tools[j].name = tool_name
    THEN CHOOSE j \in 1..Len(tools) :
            /\ tools[j].name = tool_name
            /\ \A k \in 1..(j - 1) : tools[k].name # tool_name
    ELSE 0

\* Agent(system_prompt, model, tools)
ConstructAgent(tools) ==
    /\ agent' = PostInit(tools)
    /\ found' = [name |-> "", position |-> 0]
    /\ UNCHANGED <<loopvars, docker, lastRun>>

\* Lines 165-166: the dispatch of a tool call looks its name up.
FindTool(tool_name) ==
    /\ agent.constructed
    /\ found' = [name |-> tool_name, position |-> FirstMatch(agent.tools, tool_name)]
    /\ UNCHANGED <<loopvars, docker, lastRun, agent>>

InitRegistry ==
    /\ clientAvailable = TRUE
    /\ messages = [l \in Loops |-> <<>>]
    /\ stack = [l \in Loops |-> <<>>]
    /\ status = [l \in Loops |-> IF l \in Launchers THEN "idle" ELSE "absent"]
    /\ events = [l \in Loops |-> <<>>]
    /\ lastRequest = [l \in Loops |-> <<>>]
    /\ requests = [l \in Loops |-> 0]
    /\ transportFailures = [l \in Loops |-> 0]
    /\ toolCalls = [l \in Loops |-> 0]
    /\ toolRaised = [l \in Loops |-> FALSE]
    /\ exhausted = [l \in Loops |-> FALSE]
    /\ zeroRound = [l \in Loops |-> FALSE]
    /\ fragsLeft = MaxFrags
    /\ cpu = "main"
    /\ ToolsIdle

NextRegistry ==
    \/ \E tools \in ToolLists : ConstructAgent(tools)
    \/ \E tool_name \in ToolNames : FindTool(tool_name)

\* Agents are constructed and tool names are looked up in them.
SpecRegistry == InitRegistry /\ [][NextRegistry]_vars

(***************************************************************************)
(* The container tools (tools.py 24-142).  A text is the sequence of its   *)
(* words; in a command or a path the backslash is a word of its own.       *)
(***************************************************************************)
\* the exec_run calls the container receives in all
MaxRuns == 2

RunTool == "ToolRunCommandInDevContainer"

UpsertTool == "ToolUpsertFile"

Commands ==
    { <<"ls">>,
      <<"python", "C:", "\\", "Windows", "\\", "python.exe">> }

FilePaths ==
    { <<"app.py">>,
      <<"C:", "\\", "Windows", "\\", "test.py">> }

\* what containers.get("python-dev") finds: no container (NotFound), a
\* container in some state, or a daemon that raises another exception
ContainerStatuses == {"missing", "running", "exited", "unreachable"}

ExitCodes == {0, 2}

ExecOutputs == {<<"out">>, <<"No", "such", "file">>}

\* exec_run raises, or returns an exit code and the output
ExecOutcomes ==
    {[raises |-> TRUE, exit_code |-> 0, output |-> <<>>]}
        \cup {[raises |-> FALSE, exit_code |-> c, output |-> o] :
                 c \in ExitCodes, o \in ExecOutputs}

\* an exit code inside an f-string
Str(exit_code) == IF exit_code = 0 THEN "0" ELSE "2"

DockerUnavailable ==
    <<"Error:", "Docker", "client", "not", "available.", "Please", "ensure",
      "Docker", "is", "running.">>

ContainerNotFound ==
    <<"Error:", "Python", "development", "container", "'python-dev'", "not",
      "found.", "The", "container", "may", "not", "have", "started", "properly.">>

AccessFailed == <<"Error:", "Failed", "to", "access", "container:", "e">>

NotRunning(container_status) ==
    <<"Error:", "Container", "'python-dev'", "is", "not", "running", "(status:",
      container_status, ").", "Please", "restart", "the", "agent.">>

\* what _run returns before it executes anything, <<>> if it goes on
Precheck(d) ==
    IF ~d.client THEN DockerUnavailable
    ELSE IF d.status = "missing" THEN ContainerNotFound
    ELSE IF d.status = "unreachable" THEN AccessFailed
    ELSE IF d.status # "running" THEN NotRunning(d.status)
    ELSE <<>>

\* exec_command = ["bash", "-c", self.command]
ExecCommand(command) == <<"bash", "-c">> \o command

\* the result of ToolRunCommandInDevContainer._run after exec_run
RunResult(command, o) ==
    IF o.raises
    THEN <<"Error", "executing", "command:", "e", "Command", "attempted:">>
            \o ExecCommand(command)
    ELSE IF o.exit_code # 0
    THEN <<"Command", "failed", "with", "exit", "code", Str(o.exit_code), ":">>
            \o o.output
    ELSE o.output

\* cmd = python3 -c "...; open('{self.file_path}', 'w').write(content)"
UpsertCommand(file_path) ==
    <<"python3", "-c", "open('">> \o file_path \o <<"',", "'w').write(content)">>

\* a backslash and the word after it, as Python reads them in a literal:
\* \t is a TAB, an unknown escape such as \W stays as it is
EscapeOf(word) ==
    IF word = "test.py" THEN <<"<TAB>", "est.py">> ELSE <<"\\", word>>

RECURSIVE PyLiteral(_)
\* the file name open() receives from the single-quoted literal
PyLiteral(path) ==
    IF path = <<>> THEN <<>>
    ELSE IF Head(path) = "\\" /\ Len(path) >= 2
    THEN EscapeOf(path[2]) \o PyLiteral(SubSeq(path, 3, Len(path)))
    ELSE <<Head(path)>> \o PyLiteral(Tail(path))

\* the result of ToolUpsertFile._run after exec_run
UpsertResult(file_path, o) ==
    IF o.raises
    THEN <<"Error", "writing", "file:", "e", "File", "path:">> \o file_path
            \o <<"Command", "attempted:">> \o UpsertCommand(file_path)
    ELSE IF o.exit_code = 0
    THEN <<"File", "written", "successfully">>
    ELSE <<"Error", "writing", "file:", "Command", "failed", "with", "exit",
           "code", Str(o.exit_code), "File", "path:">> \o file_path
            \o <<"Command", "attempted:">> \o UpsertCommand(file_path)
            \o <<"Error", "output:">> \o o.output

\* ToolRunCommandInDevContainer(command=command)._run()
RunCommand(command) ==
    /\ Len(docker.executed) < MaxRuns
    /\ \E o \in ExecOutcomes :
         IF Precheck(docker) # <<>>
         THEN /\ lastRun' = [tool |-> RunTool, input |-> command,
                             result |-> Precheck(docker)]
              /\ UNCHANGED docker
         ELSE /\ lastRun' = [tool |-> RunTool, input |-> command,
                             result |-> RunResult(command, o)]
              /\ docker' = [docker EXCEPT !.executed =
                              IF o.raises THEN @
                              ELSE Append(@, ExecCommand(command))]
    /\ UNCHANGED <<loopvars, agent, found>>

\* ToolUpsertFile(file_path=file_path, content=...)._run(); the content is
\* not part of the state
UpsertFile(file_path) ==
    /\ Len(docker.executed) < MaxRuns
    /\ \E o \in ExecOutcomes :
         IF Precheck(docker) # <<>>
         THEN /\ lastRun' = [tool |-> UpsertTool, input |-> file_path,
                             result |-> Precheck(docker)]
              /\ UNCHANGED docker
         ELSE /\ lastRun' = [tool |-> UpsertTool, input |-> file_path,
                             result |-> UpsertResult(file_path, o)]
              /\ docker' = [docker EXCEPT
                              !.executed = IF o.raises THEN @
                                           ELSE Append(@, UpsertCommand(file_path)),
                              !.files = IF ~o.raises /\ o.exit_code = 0
                                        THEN @ \cup {PyLiteral(file_path)}
                                        ELSE @]
    /\ UNCHANGED <<loopvars, agent, found>>

\* the container is started, stops or is removed outside the tools
ContainerBecomes(container_status) ==
    /\ docker.client
    /\ container_status # docker.status
    /\ docker' = [docker EXCEPT !.status = container_status]
    /\ UNCHANGED <<loopvars, lastRun, agent, found>>

InitTools ==
    /\ clientAvailable = TRUE
    /\ messages = [l \in Loops |-> <<>>]
    /\ stack = [l \in Loops |-> <<>>]
    /\ status = [l \in Loops |-> IF l \in Launchers THEN "idle" ELSE "absent"]
    /\ events = [l \in Loops |-> <<>>]
    /\ lastRequest = [l \in Loops |-> <<>>]
    /\ requests = [l \in Loops |-> 0]
    /\ transportFailures = [l \in Loops |-> 0]
    /\ toolCalls = [l \in Loops |-> 0]
    /\ toolRaised = [l \in Loops |-> FALSE]
    /\ exhausted = [l \in Loops |-> FALSE]
    /\ zeroRound = [l \in Loops |-> FALSE]
    /\ fragsLeft = MaxFrags
    /\ cpu = "main"
    /\ docker \in [client : BOOLEAN, status : ContainerStatuses,
                   executed : {<<>>}, files : {{}}]
    /\ lastRun = [tool |-> "", input |-> <<>>, result |-> <<>>]
    /\ agent = [constructed |-> FALSE, tools |-> <<>>, available_tools |-> <<>>]
    /\ found = [name |-> "", position |-> 0]

NextTools ==
    \/ \E command \in Commands : RunCommand(command)
    \/ \E file_path \in FilePaths : UpsertFile(file_path)
    \/ \E container_status \in ContainerStatuses : ContainerBecomes(container_status)

\* The two container tools are run against a container that comes and goes.
SpecTools == InitTools /\ [][NextTools]_vars

(***************************************************************************)
(* Vocabulary of the registry and container tool properties.               *)
(***************************************************************************)
\* text contains phrase (Python's "phrase in text", word by word)
Contains(text, phrase) ==
    \E i \in 0..(Len(text) - Len(phrase)) :
        SubSeq(text, i + 1, i + Len(phrase)) = phrase

\* a drive letter, a backslash and so on to a file ending in .exe
WindowsStylePath(command) ==
    /\ \E i \in 1..(Len(command) - 1) : command[i] = "C:" /\ command[i + 1] = "\\"
    /\ command # <<>> /\ command[Len(command)] = "python.exe"

HasBackslash(path) == \E i \in 1..Len(path) : path[i] = "\\"

(***************************************************************************)
(* C28 (as claimed).  An Agent is never constructed from a tool list in    *)
(* which two tools have the same name, and a lookup never selects a tool   *)
(* while another tool of the same name stands in the list.                 *)
(***************************************************************************)
C28_DuplicateNamesFailAtConstruction ==
    /\ agent.constructed =>
          \A i, j \in 1..Len(agent.tools) :
              i # j => agent.tools[i].name # agent.tools[j].name
    /\ found.position # 0 =>
          \A j \in 1..Len(agent.tools) :
              j # found.position => agent.tools[j].name # found.name

(***************************************************************************)
(* C29 (as claimed).  When ToolRunCommandInDevContainer has run with a     *)
(* command that contains a Windows-style executable path, its result       *)
(* contains the words 'Windows-style executable path', and no such command *)
(* is ever executed in the container.                                      *)
(***************************************************************************)
C29_WindowsPathCommandRejected ==
    /\ (lastRun.tool = RunTool /\ WindowsStylePath(lastRun.input)) =>
          Contains(lastRun.result, <<"Windows-style", "executable", "path">>)
    /\ \A command \in Commands : \A j \in 1..Len(docker.executed) :
          WindowsStylePath(command) => docker.executed[j] # ExecCommand(command)

(***************************************************************************)
(* C30 (as claimed).  When ToolUpsertFile has run with a file path that    *)
(* contains a backslash, its result contains the word 'backslashes', and   *)
(* no file is ever written for such a path.                                *)
(***************************************************************************)
C30_BackslashPathRejected ==
    /\ (lastRun.tool = UpsertTool /\ HasBackslash(lastRun.input)) =>
          Contains(lastRun.result, <<"backslashes">>)
    /\ \A file_path \in FilePaths :
          HasBackslash(file_path) => PyLiteral(file_path) \notin docker.files

(***************************************************************************)
(* C31.  An exception of the construction or the invocation of a matched   *)
(* tool is a failed attempt of the round: on attempt 1 or 2 the invocation *)
(* waits with the attempt number raised by one, on attempt 3 it raises.    *)
(* A waiting invocation goes on to a new attempt, which issues the request *)
(* built from the history as it is then; a raised invocation ends, its     *)
(* error reaching its caller (the loop ends as raised, or the invocation   *)
(* that started it takes the error as a failure of its own attempt).  No   *)
(* such step changes the history, and while the loop runs the events       *)
(* emitted so far stay as they are.                                        *)
(***************************************************************************)
C31_ToolExceptionIsAFailedAttempt ==
    /\ [][\A l \in Loops :
            (/\ Running(l) /\ Top(l).pc \in {"dispatch", "invoking"}
             /\ Len(stack'[l]) = Len(stack[l])
             /\ stack'[l][Len(stack'[l])].pc \in {"wait", "raised"}) =>
               LET f == Top(l)
                   g == stack'[l][Len(stack'[l])]
               IN  /\ f.attempt < MaxAttempts =>
                        (g.pc = "wait" /\ g.attempt = f.attempt + 1)
                   /\ f.attempt = MaxAttempts => (g.pc = "raised" /\ exhausted'[l])
                   /\ events'[l] = events[l]
                   /\ messages'[l] = messages[l]
                   /\ status'[l] = "running"]_vars
    /\ [][\A l \in Loops :
            (Running(l) /\ Top(l).pc = "wait" /\ stack'[l] # stack[l]) =>
               /\ Len(stack'[l]) = Len(stack[l])
               /\ stack'[l][Len(stack'[l])].pc = "attempt"
               /\ stack'[l][Len(stack'[l])].attempt = Top(l).attempt]_vars
    /\ [][\A l \in Loops :
            (Running(l) /\ Top(l).pc = "attempt" /\ stack'[l] # stack[l]) =>
               /\ requests'[l] = requests[l] + 1
               /\ lastRequest'[l] = BuildRequest(SystemPromptOf(l), messages[l])]_vars
    /\ [][\A l \in Loops :
            (Running(l) /\ Top(l).pc = "raised" /\ stack'[l] # stack[l]) =>
               /\ Len(stack'[l]) = Len(stack[l]) - 1
               /\ Len(stack[l]) = 1 => status'[l] = "raised"
               /\ Len(stack[l]) > 1 =>
                    stack'[l][Len(stack'[l])].pc \in {"wait", "raised"}]_vars
    /\ [][\A l \in Loops :
            (status[l] = "running" /\ status'[l] \in {"running", "raised"}) =>
               IsPrefix(events[l], events'[l])]_vars

\* the first two attempts failed in transport, the tool invoked in the
\* third raised, and the loop has ended by raising; the ToolUse event of
\* that invocation is still in the stream
C31_Witness ==
    \E l \in Loops :
        /\ status[l] = "raised" /\ toolRaised[l]
        /\ requests[l] = 3 /\ transportFailures[l] = 2
        /\ events[l] # <<>>
        /\ events[l][Len(events[l])].type = "ToolUse"

\* the two messages of each call the current attempt of f has dispatched
RECURSIVE MessagesOf(_, _)
MessagesOf(content, entries) ==
    IF entries = <<>> THEN <<>>
    ELSE <<AssistantMessage(content, ToolCall(Head(entries))),
           ToolMessage(Head(entries).id, ToolResultText(ToolOf(Head(entries))))>>
         \o MessagesOf(content, Tail(entries))

(***************************************************************************)
(* C32.  When an attempt has failed after dispatching j calls (a tool      *)
(* raised, or the recursive invocation it started raised), the 2j messages *)
(* of those calls are still in the history, at the place they were         *)
(* appended, while the invocation waits, raises or starts its next         *)
(* attempt; the request of that next attempt carries them; and no failing  *)
(* step changes the history or lowers the count of executed tools.         *)
(***************************************************************************)
C32_FailedAttemptIsNotRolledBack ==
    /\ [](\A l \in Loops : \A f \in Frames(l) :
            (\/ f.pc \in {"wait", "raised"}
             \/ f.pc = "attempt" /\ f.attempt >= 2) =>
               /\ Len(messages[l]) >= f.msgStart + 2 * Len(f.dispatched)
               /\ OwnMessages(l, f) = MessagesOf(f.content, f.dispatched))
    /\ [][\A l \in Loops :
            (Running(l) /\ Top(l).pc = "attempt" /\ Top(l).attempt >= 2
                /\ requests'[l] = requests[l] + 1) =>
               SubSeq(lastRequest'[l], Top(l).msgStart + 2,
                      Top(l).msgStart + 1 + 2 * Len(Top(l).dispatched))
                  = MessagesOf(Top(l).content, Top(l).dispatched)]_vars
    /\ [][\A l \in Loops : \A d \in 1..Len(stack[l]) :
            (d <= Len(stack'[l]) /\ stack[l][d].pc \notin {"wait", "raised"}
                /\ stack'[l][d].pc \in {"wait", "raised"}) =>
               (messages'[l] = messages[l] /\ toolCalls'[l] >= toolCalls[l])]_vars

\* the request of a later attempt of the outermost invocation has been
\* issued after an attempt that dispatched a call and then failed by an
\* exception of a tool or of the recursive invocation
C32_Witness ==
    \E l \in Loops :
        /\ Running(l) /\ Len(stack[l]) = 1
        /\ Top(l).attempt >= 2 /\ Top(l).pc = "stream"
        /\ transportFailures[l] = 0 \/ toolRaised[l]
        /\ Top(l).msgStart >= 3
        /\ Len(lastRequest[l]) = Top(l).msgStart + 1
        /\ lastRequest[l][Len(lastRequest[l]) - 1].role = "assistant"
        /\ lastRequest[l][Len(lastRequest[l])].role = "tool"

(***************************************************************************)
(* C33.  A round that dispatches no tool leaves the history as it was:     *)
(* while the current attempt of the innermost invocation has dispatched    *)
(* nothing, the history is as long as when the attempt started; the        *)
(* history changes only in a step of add_user_message or in the step that  *)
(* records a dispatched call (not when a turn ends, not when the client is *)
(* missing); and every assistant message of the history references         *)
(* exactly one tool call, so the text of a final turn is never in it.      *)
(***************************************************************************)
C33_NoDispatchNoHistoryChange ==
    /\ [](\A l \in Loops :
            (Running(l) /\ Top(l).dispatched = <<>> /\ Top(l).recursed = 0
                /\ Top(l).pc \in {"stream", "dispatch", "invoking", "returning"}) =>
               Len(messages[l]) = Top(l).msgStart)
    /\ [](\A l \in Loops : \A j \in 1..Len(messages[l]) :
            messages[l][j].role = "assistant" => Len(messages[l][j].tool_calls) = 1)
    /\ [][\A l \in Launchers :
            messages'[l] # messages[l] =>
               \/ status[l] # "running" /\ status'[l] = status[l]
               \/ /\ Running(l) /\ Top(l).pc = "invoking"
                  /\ Len(stack'[l]) = Len(stack[l])
                  /\ Len(stack'[l][Len(stack'[l])].dispatched)
                        = Len(Top(l).dispatched) + 1]_vars

\* the loop has returned after a round that executed a call and a final
\* turn that carried text: the history holds the user message and the two
\* messages of the call, and the last event is the text of the final turn
C33_Witness ==
    \E l \in Loops :
        /\ status[l] = "returned" /\ zeroRound[l] /\ toolCalls[l] = 1
        /\ Len(messages[l]) = 3
        /\ events[l] # <<>>
        /\ events[l][Len(events[l])].type = "Text"
        /\ events[l][Len(events[l])].text \in {<<"a">>, <<"b">>}

(***************************************************************************)
(* C34.  In one loop only the innermost invocation is active: every other  *)
(* invocation waits at line 194 for the one it started, its stream         *)
(* consumed, its for loop over, every call it dispatched returned and the  *)
(* two messages of each appended.  So at most one stream and at most one   *)
(* tool invocation of the loop are in progress, never both, and a request  *)
(* of a recursive round is issued only in that situation.                  *)
(***************************************************************************)
C34_RoundsNeverOverlap ==
    /\ [](\A l \in Loops :
            /\ \A d \in 1..(Len(stack[l]) - 1) :
                 LET f == stack[l][d] IN
                 /\ f.pc = "recursing"
                 /\ f.i > Len(f.calls)
                 /\ f.executed /\ f.dispatched # <<>>
                 /\ Len(messages[l]) >= f.msgStart + 2 * Len(f.dispatched)
                 /\ OwnMessages(l, f) = MessagesOf(f.content, f.dispatched)
                 /\ stack[l][d + 1].msgStart >= f.msgStart + 2 * Len(f.dispatched)
            /\ Cardinality({d \in 1..Len(stack[l]) :
                               stack[l][d].pc \in {"stream", "invoking"}}) <= 1)
    /\ [][\A l \in Loops :
            (requests'[l] = requests[l] + 1 /\ Len(stack[l]) >= 2) =>
               LET f == stack[l][Len(stack[l]) - 1] IN
               /\ f.pc = "recursing" /\ f.i > Len(f.calls)
               /\ SubSeq(lastRequest'[l], f.msgStart + 2,
                         f.msgStart + 1 + 2 * Len(f.dispatched))
                     = MessagesOf(f.content, f.dispatched)]_vars

\* the stream of a recursive round is being consumed while the round that
\* started it, which dispatched two calls, waits for it
C34_Witness ==
    \E l \in Loops :
        /\ Running(l) /\ Len(stack[l]) = 2
        /\ stack[l][1].pc = "recursing" /\ Len(stack[l][1].dispatched) = 2
        /\ Top(l).pc = "stream" /\ Top(l).msgStart = Len(messages[l])
        /\ Len(messages[l]) >= 4

RECURSIVE EventsInArrivalOrder(_, _)
\* for each chunk of rest in turn: its text, if it has any, as one Text
\* event, then one InputJson event for each of its increments that carries a
\* function part, in the order of its list (done are the chunks before rest)
EventsInArrivalOrder(done, rest) ==
    IF rest = <<>> THEN <<>>
    ELSE LET c == Head(rest)
         IN  (IF c.content # <<>> THEN <<EventText(c.content)>> ELSE <<>>)
             \o PayloadsOfFn(AllDeltas(done), c.tool_calls)
             \o EventsInArrivalOrder(Append(done, c), Tail(rest))

(***************************************************************************)
(* C35.  In one attempt the events are those of its fragments in arrival   *)
(* order, none dropped or reordered: for each fragment its Text event,     *)
(* then its InputJson events in the order of its increment list.  Once     *)
(* the stream is over these stand first among the events of the attempt,   *)
(* and all its ToolUse and ToolResult events come after them, followed by  *)
(* no further InputJson event.                                             *)
(***************************************************************************)
C35_EventsInFragmentOrder ==
    \A l \in Loops :
        (Running(l) /\ Top(l).recursed = 0
            /\ Top(l).pc \in {"stream", "dispatch", "invoking"}) =>
           LET expected == EventsInArrivalOrder(<<>>, Top(l).chunks)
               emitted  == AttemptEvents(l)
           IN  /\ Len(emitted) >= Len(expected)
               /\ SubSeq(emitted, 1, Len(expected)) = expected
               /\ Top(l).pc = "stream" => emitted = expected
               /\ \A j \in (Len(expected) + 1)..Len(emitted) :
                    emitted[j].type \in {"ToolUse", "ToolResult", "Text"}
               /\ \A j \in 1..Len(expected) :
                    emitted[j].type \in {"Text", "InputJson"}

\* a tool is being awaited after a stream of two fragments, the second of
\* which carried text and two increments
C35_Witness ==
    \E l \in Loops :
        /\ Running(l) /\ Top(l).pc = "invoking" /\ Top(l).recursed = 0
        /\ Len(Top(l).chunks) = 2
        /\ Top(l).chunks[1].tool_calls # <<>>
        /\ Top(l).chunks[2].content # <<>>
        /\ Len(Top(l).chunks[2].tool_calls) = 2
        /\ Len(AttemptEvents(l)) = 5
        /\ AttemptEvents(l)[2].type = "Text"
        /\ AttemptEvents(l)[5].type = "ToolUse"

(***************************************************************************)
(* Vocabulary of the spawn properties.                                     *)
(***************************************************************************)
\* the spawn calls loop l has dispatched: the assistant messages of its
\* history that reference a call of the spawn tool
SpawnCalls(l) ==
    Len(SelectSeq(messages[l],
                  LAMBDA m : /\ m.role = "assistant"
                             /\ m.tool_calls[1].function.name = SpawnTool))

\* the loops that have been started: the launcher's, and the subagents created
LoopsStarted == Launchers \cup {s \in Subagents : status[s] # "absent"}

C37_SpawnNeverRaises ==
    [][\A l \in Loops :
          SpawnReturns(l) =>
             LET f == Top(l)
                 call == f.calls[f.i]
             IN  \E result \in {Ack(TaskOf(f.tool.args)), SpawnError} :
                    /\ Len(stack'[l]) = Len(stack[l])
                    /\ TopAfter(l).pc = "dispatch" /\ TopAfter(l).i = f.i + 1
                    /\ TopAfter(l).attempt = f.attempt
                    /\ TopAfter(l).executed
                    /\ events'[l] = Append(events[l], EventToolResult(f.tool, result))
                    /\ messages'[l] = messages[l]
                          \o <<AssistantMessage(f.content, ToolCall(call)),
                               ToolMessage(call.id, result)>>
                    /\ toolRaised'[l] = toolRaised[l]]_vars

\* the spawn failed: no subagent exists, and the launcher has the error
\* text as the result of the call, in its events and in its history
C37_Witness ==
    \E l \in Launchers :
        /\ Running(l) /\ Top(l).pc = "dispatch" /\ Top(l).executed
        /\ \A s \in Subagents : status[s] = "absent"
        /\ events[l] # <<>>
        /\ events[l][Len(events[l])].type = "ToolResult"
        /\ events[l][Len(events[l])].name = SpawnTool
        /\ events[l][Len(events[l])].text = SpawnError
        /\ Len(messages[l]) >= 2
        /\ messages[l][Len(messages[l])].role = "tool"
        /\ messages[l][Len(messages[l])].content = SpawnError
        /\ messages[l][Len(messages[l]) - 1].role = "assistant"

(***************************************************************************)
(* C38.  Without a model client an invocation of the loop yields the one   *)
(* error text and is over: the loop never runs, no request is issued, no   *)
(* attempt is made or repeated, no tool is invoked, and the history is     *)
(* what it was before the invocation.                                      *)
(***************************************************************************)
C38_NoClientOneErrorText ==
    /\ [](~clientAvailable =>
            \A l \in Launchers :
               /\ status[l] \in {"idle", "returned"}
               /\ stack[l] = <<>>
               /\ requests[l] = 0 /\ transportFailures[l] = 0
               /\ toolCalls[l] = 0 /\ ~toolRaised[l] /\ ~exhausted[l]
               /\ lastRequest[l] = <<>>
               /\ status[l] = "returned" =>
                     events[EventSink(l)] = <<EventText(ClientError)>>)
    /\ [][\A l \in Launchers :
            (/\ ~clientAvailable
             /\ status[l] # "running"
             /\ \/ status'[l] # status[l]
                \/ events'[EventSink(l)] # events[EventSink(l)]) =>
               /\ status'[l] = "returned"
               /\ events'[EventSink(l)] = <<EventText(ClientError)>>
               /\ messages'[l] = messages[l]]_vars

\* the loop was invoked on a history with a user message and there was no
\* client: the caller has the error text, the history has the user message
C38_Witness ==
    \E l \in Launchers :
        /\ ~clientAvailable
        /\ status[l] = "returned"
        /\ events[EventSink(l)] = <<EventText(ClientError)>>
        /\ Len(messages[l]) = 1 /\ messages[l][1].role = "user"


=============================================================================
